---- MODULE Spec2Model ----
\* LLM bridge service (yomo pkg/bridge/ai): the two-phase chat-completion
\* orchestrator Service.GetChatCompletions / Service.GetInvoke, the tool
\* dispatch through Caller.Call, and the helpers they use.
\*
\* Strings are modelled as sequences of tokens, so that "" is <<>> and Go's
\* string concatenation is \o.
EXTENDS Integers, Sequences, FiniteSets, TLC

\* ---------------------------------------------------------------- bounds
\* chunks the provider delivers on the first stream before EOF
MaxChunks == 3
\* chunks the provider delivers on the second stream before EOF
MaxChunks2 == 2
\* tool calls in one non-stream provider response
MaxCalls == 2
\* result frames workers send while one call is pending
MaxReplies == 2

\* ---------------------------------------------------------------- values
\* a nil *int (ToolCall.Index)
NoIndex == -1
\* an optional value (a Go pointer): <<>> is nil, <<v>> points to v
Nil == <<>>

Some(v) == <<v>>

Tool(n, g) == [name |-> n, type |-> "function", tag |-> g, desc |-> <<"about", n>>]

ToolCall(ix, i, ty, n, a) == [index |-> ix, id |-> i, type |-> ty, name |-> n, args |-> a]

Msg(r, c, tcid, tcs) == [role |-> r, content |-> c, tool_call_id |-> tcid, tool_calls |-> tcs]

Usage(p, c, t) == [prompt |-> p, completion |-> c, total |-> t]

ZeroUsage == Usage(0, 0, 0)

\* ---------------------------------------------------------------- inputs
\* registry snapshots returned by ai.ListToolCalls(md): empty, one tool, the
\* same name under two tags, two names
Registries ==
    { <<>>,
      <<Tool("f", 1)>>,
      <<Tool("f", 1), Tool("f", 2)>>,
      <<Tool("f", 1), Tool("g", 2)>> }

\* the tools field of the client request: absent, or the client's own tools
ClientTools == { <<>>, <<Tool("own", 0)>> }

\* the service set-ups: the provider's Name() and the system-prompt slot of the
\* Caller, (op, prompt)
Setups ==
    { <<"openai", <<"Disabled", <<>>>>>>,
      <<"anthropic", <<"Overwrite", <<"p">>>>>> }

InputMessages == <<Msg("system", <<"s">>, "", <<>>), Msg("user", <<"u">>, "", <<>>)>>

\* tool calls a provider may emit in a non-stream response
CallSet ==
    { ToolCall(NoIndex, "c1", "function", "f", <<"x">>),
      ToolCall(NoIndex, "c2", "function", "f", <<"y">>),
      ToolCall(NoIndex, "c2", "function", "g", <<"y">>),
      ToolCall(NoIndex, "c3", "function", "h", <<>>) }

DistinctIDs(s) == \A a, b \in 1..Len(s) : a # b => s[a].id # s[b].id

\* every tool call of one completion response has a unique id
CallSeqs ==
    { s \in UNION { [1..n -> CallSet] : n \in 0..MaxCalls } : DistinctIDs(s) }

\* usage block reported by the provider for one call
ProviderUsage == Usage(1, 2, 3)

\* non-stream responses: no choice at all, or one choice
Resp(n, fr, c, tcs) ==
    [nchoices |-> n, finish |-> fr, content |-> c, calls |-> tcs, usage |-> ProviderUsage]

FirstResps ==
    { Resp(0, "", <<>>, <<>>) }
    \cup { Resp(1, "stop", <<"a">>, tcs) : tcs \in { <<>>, <<ToolCall(NoIndex, "c1", "function", "f", <<"x">>)>> } }
    \cup { Resp(1, "tool_calls", <<>>, tcs) : tcs \in CallSeqs }

SecondResps == { Resp(1, "stop", <<"z">>, <<>>) }

\* stream chunks: prompt-filter flag, usage (nil or a block), 0 or 1 choice with a
\* content delta and tool-call deltas
Chunk(pf, u, n, c, ds) == [pf |-> pf, usage |-> u, nchoices |-> n, content |-> c, deltas |-> ds]

Deltas ==
    [ first0 |-> ToolCall(0, "c1", "function", "f", <<>>),
      cont0  |-> ToolCall(0, "", "", "", <<"x">>),
      first1 |-> ToolCall(1, "c2", "function", "g", <<"y">>),
      noidx  |-> ToolCall(NoIndex, "c1", "function", "f", <<>>) ]

FirstChunks ==
    { Chunk(FALSE, Nil, 1, <<"a">>, <<>>),
      Chunk(TRUE, Nil, 0, <<>>, <<>>),
      Chunk(FALSE, Some(ProviderUsage), 0, <<>>, <<>>),
      Chunk(FALSE, Nil, 1, <<>>, <<Deltas.first0>>),
      Chunk(FALSE, Nil, 1, <<>>, <<Deltas.cont0>>),
      Chunk(FALSE, Nil, 1, <<>>, <<Deltas.first1>>),
      Chunk(FALSE, Nil, 1, <<>>, <<Deltas.noidx>>),
      Chunk(FALSE, Nil, 1, <<"a">>, <<Deltas.first0, Deltas.first1>>) }

SecondChunks ==
    { Chunk(FALSE, Nil, 1, <<"s">>, <<>>),
      Chunk(FALSE, Some(ProviderUsage), 0, <<>>, <<>>) }

\* errors a provider call or a stream Recv may return
ProviderErrs == { "ErrProvider" }

\* contents of worker result frames
ReplyContents == { <<"r1">>, <<"r2">> }

\* toolCallIDs a result frame may carry (c9 is expected by no request)
ReplyIDs == { "c1", "c2", "c3", "c9" }

\* ---------------------------------------------------------------- helpers
\* addToolsToRequest: the client's own tools win; else the registry's tools
\* are attached when there are any
addToolsToRequest(req, tls) ==
    LET hasReqTools == Len(req.Tools) > 0
    IN  [req |-> IF ~hasReqTools /\ Len(tls) > 0 THEN [req EXCEPT !.Tools = tls] ELSE req,
         hasReqTools |-> hasReqTools]

\* the loop keeps the system messages only
OpLoopSystemOnly(msgs, systemCount, sysPrompt, op) ==
    SelectSeq(msgs, LAMBDA msg : msg.role = "system")

\* every system message is rebuilt from the op, none is dropped
RECURSIVE OpLoopKeepsLater(_, _, _, _)
OpLoopKeepsLater(msgs, systemCount, sysPrompt, op) ==
    IF msgs = <<>> THEN <<>>
    ELSE LET msg == Head(msgs) IN
         (IF msg.role # "system" THEN <<msg>>
          ELSE <<Msg(msg.role,
                     IF op = "Prefix" THEN sysPrompt \o <<"\n">> \o msg.content
                     ELSE IF op = "Overwrite" THEN sysPrompt ELSE <<>>,
                     "", <<>>)>>)
         \o OpLoopKeepsLater(Tail(msgs), systemCount + 1, sysPrompt, op)

\* the loop of OpSystemPrompt: non-system messages are kept, the first system
\* message is rebuilt from the op, later system messages are dropped
RECURSIVE OpLoop(_, _, _, _)
OpLoop(msgs, systemCount, sysPrompt, op) ==
    IF msgs = <<>> THEN <<>>
    ELSE LET msg == Head(msgs) IN
         IF msg.role # "system"
         THEN <<msg>> \o OpLoop(Tail(msgs), systemCount, sysPrompt, op)
         ELSE (IF systemCount = 0
               THEN <<Msg(msg.role,
                          IF op = "Prefix" THEN sysPrompt \o <<"\n">> \o msg.content
                          ELSE IF op = "Overwrite" THEN sysPrompt ELSE <<>>,
                          "", <<>>)>>
               ELSE <<>>)
              \o OpLoop(Tail(msgs), systemCount + 1, sysPrompt, op)

OpSystemPrompt(req, sysPrompt, op) ==
    IF op = "Disabled" THEN req
    ELSE IF op = "Overwrite" /\ sysPrompt = <<>> THEN req
    ELSE LET systemCount == Cardinality({k \in 1..Len(req.Messages) : req.Messages[k].role = "system"})
             messages == IF systemCount = 0 /\ sysPrompt # <<>>
                         THEN <<Msg("system", sysPrompt, "", <<>>)>> \o req.Messages
                         ELSE OpLoop(req.Messages, 0, sysPrompt, op)
         IN  [req EXCEPT !.Messages = messages]

\* findTools: every call is appended once per registered tool of its name and type
RECURSIVE MatchCopies(_, _)
MatchCopies(tls, call) ==
    IF tls = <<>> THEN <<>>
    ELSE (IF Head(tls).name = call.name /\ Head(tls).type = call.type THEN <<call>> ELSE <<>>)
         \o MatchCopies(Tail(tls), call)

RECURSIVE findTools(_, _)
findTools(tls, toolCalls) ==
    IF toolCalls = <<>> THEN <<>>
    ELSE MatchCopies(tls, Head(toolCalls)) \o findTools(tls, Tail(toolCalls))

\* the id and type of every delta are stored, also the empty ones of a
\* continuation
ApplyDeltaLastID(m, t) ==
    LET old == IF t.index \in DOMAIN m THEN m[t.index]
               ELSE ToolCall(t.index, t.id, t.type, "", <<>>)
        item == [old EXCEPT !.id = t.id, !.type = t.type]
        item1 == IF t.args # <<>> THEN [item EXCEPT !.args = item.args \o t.args] ELSE item
        item2 == IF t.name # "" THEN [item1 EXCEPT !.name = t.name] ELSE item1
    IN  [k \in DOMAIN m \cup {t.index} |-> IF k = t.index THEN item2 ELSE m[k]]

\* one tool-call delta folded into toolCallsMap (keyed by the delta's index)
ApplyDelta(m, t) ==
    LET item == IF t.index \in DOMAIN m THEN m[t.index]
                ELSE ToolCall(t.index, t.id, t.type, "", <<>>)
        item1 == IF t.args # <<>> THEN [item EXCEPT !.args = item.args \o t.args] ELSE item
        item2 == IF t.name # "" THEN [item1 EXCEPT !.name = t.name] ELSE item1
    IN  [k \in DOMAIN m \cup {t.index} |-> IF k = t.index THEN item2 ELSE m[k]]

RECURSIVE ApplyDeltas(_, _)
ApplyDeltas(m, ds) ==
    IF ds = <<>> THEN m ELSE ApplyDeltas(ApplyDelta(m, Head(ds)), Tail(ds))

\* index := *t.Index dereferences a nil pointer when a delta has no index
DerefsNilIndex(ds) == \E k \in 1..Len(ds) : ds[k].index = NoIndex

\* mapToSliceTools writes arr[k] of a slice of len(m): out of range unless the
\* keys are exactly 0..len(m)-1
MapSliceOutOfRange(m) == \E k \in DOMAIN m : k < 0 \/ k >= Cardinality(DOMAIN m)

mapToSliceTools(m) == [k \in 1..Cardinality(DOMAIN m) |-> m[k - 1]]

\* llmCalls filled from the last result to the first
llmCallsReversed(callResult) ==
    [k \in 1..Len(callResult) |->
        Msg("tool", callResult[Len(callResult) + 1 - k].content,
            callResult[Len(callResult) + 1 - k].toolCallID, <<>>)]

\* llmCalls built only from the results that carry content
llmCallsWithContent(callResult) ==
    LET kept == SelectSeq(callResult, LAMBDA r : r.content # <<>>)
    IN  [k \in 1..Len(kept) |-> Msg("tool", kept[k].content, kept[k].toolCallID, <<>>)]

\* the tool messages built from the call results (llmCalls)
llmCallsOf(callResult) ==
    [k \in 1..Len(callResult) |->
        Msg("tool", callResult[k].content, callResult[k].toolCallID, <<>>)]

\* the tools field is reset for every provider
KeepsToolsNever(name) == FALSE

\* the provider's Name() decides whether the follow-up request keeps its tools
KeepsTools(name) == name = "anthropic"

\* the follow-up request of GetChatCompletions
FollowUp(req, reqMessages, assistantMessage, callResult, name) ==
    [req EXCEPT !.ToolChoice = "nil",
                !.Messages = (reqMessages \o <<assistantMessage>>) \o llmCallsOf(callResult),
                !.Tools = IF ~KeepsTools(name) THEN <<>> ELSE req.Tools]

\* usage of the second call with the first call's usage added
AddUsage(u, p, c, t) ==
    Usage(u.prompt + p, u.completion + c, u.total + t)

\* ---------------------------------------------------------------- state
VARIABLES
    api,              \* "chat" (GetChatCompletions) or "invoke" (GetInvoke)
    registry,         \* what ai.ListToolCalls(md) returns for this request
    providerName,     \* srv.provider.Name()
    sysSlot,          \* caller.GetSystemPrompt(): <<op, prompt>>
    includeCallStack, \* argument of GetInvoke
    clientTools,      \* req.Tools as the client sent it
    pc,               \* position of the request in its handler
    outcome,          \* "running", "nil", "panic" or the error returned
    req,              \* the request as the handler holds it
    tools, hasReqTools, reqMessages,
    toolCallsMap, toolCalls, assistantMessage,
    isFunctionCall, i, j, respSpan,
    promptUsage, completionUsage, totalUsage,
    upstream,         \* chunks received so far from the current resStream
    written,          \* what has been written to the EventResponseWriter
    ttft,             \* Len(written) at each w.RecordTTFT
    providerReqs,     \* the requests handed to the provider, in order
    providerErr,      \* the error the provider returned, if any
    firstResp,        \* the first call's non-stream response (nil before it)
    firstHadToolCalls, \* the first call's response carried tool calls
    firstUsage,       \* the usage the provider reported for the first call
    registryTools,    \* azopenai: the package variable tools (appID -> tag -> tool call)
    mu,               \* azopenai: the holder of the mutex mu ("" when free)
    rpc,              \* position of the azopenai GetChatCompletions call
    rapp,             \* its appID
    rsnap,            \* the content of mapTools when ListToolCalls returned it
    rdirty,           \* the map was written while the call ranged over it
    lastWrite,        \* the last registry write that returned
    lastEffect,       \* what that write replaced or removed
    cpc,              \* y3codec: position of the frame on its way through the codec
    frame,            \* the AIRegisterFunctionFrame that is encoded
    fieldOrder,       \* the order of the primitive packets inside the node
    wire,             \* the encoded node
    decoded,          \* what decodeAIRegisterFunctionFrame returned
    opPc,             \* OpSystemPrompt as a unit: "off", "call" or "returned"
    opReq,            \* its argument req
    opPrompt, opOp,   \* its arguments sysPrompt and op
    opOut,            \* the request it returned
    cacheSize,        \* opt.CallerCacheSize after initOption
    cacheTTL,         \* opt.CallerCacheTTL > 0
    callers,          \* srv.callers: the entries, most recently used first
    made,             \* the Callers newCallerFunc has returned so far (1..made)
    closeCount,       \* Close() invocations per Caller
    leftBy,           \* how a Caller left the cache, "" while it has not
    lpc,              \* position of each loadOrCreateCaller call
    lkey,             \* its credential, from the miss until it returns
    lcaller,          \* the Caller it holds (0: none)
    factoryCalls,     \* invocations of newCallerFunc per credential
    mdPc,             \* metadata of a Caller: position of the request that uses it
    mdApi,            \* the handler of that request
    mdHeap,           \* the metadata maps: 0 is the Caller's, n the one request n made
    md,               \* the map the handler holds in md
    mdRequests,       \* requests started on the Caller
    mdOriginal,       \* the Caller's metadata when it was constructed
    mdSeen,           \* what caller.Metadata() held when the request read it
    servePc,          \* serve command: position of Run
    serveIn,          \* its inputs: the flag, the config file, what the callees return
    options,          \* the zipper options collected so far
    aiConfig,         \* what ai.ParseConfig returned (Nil: a nil *Config)
    zipper,           \* yomo.NewZipper returned a zipper
    registered,       \* the providers handed to ai.RegisterProvider
    apiServer,        \* the goroutine of ai.Serve was started
    listening,        \* zipper.ListenAndServe was called
    rePc,             \* reassembly of streamed tool calls: "off", "stream" or "done"
    reDeltas,         \* the tool-call deltas of the first stream, in arrival order
    reOut,            \* the slice mapToSliceTools returned, or the panic
    azPc,             \* one azopenai GetChatCompletions call: "off", "call" or "returned"
    azTools,          \* the tools registered for its appID (tag -> tool call)
    azUpstream,       \* what the upstream request comes back with
    azOut,            \* what the call returned, or the panic
    fnCalls,          \* the tool calls handed to caller.Call
    callCount,        \* invocations of caller.Call
    expected, got,    \* the pending entry of the Caller: expected ids, results so far
    replies,          \* result frames routed while the pending entry exists
    arrival,          \* the toolCallIDs of the last call in the order their results arrived
    callResult, callErr,
    ret               \* the response GetInvoke returns (nil or one response)

\* the state of the Service handlers
serviceVars ==
    <<api, registry, providerName, sysSlot, includeCallStack, clientTools, pc, outcome, req,
      tools, hasReqTools, reqMessages, toolCallsMap, toolCalls, assistantMessage,
      isFunctionCall, i, j, respSpan, promptUsage, completionUsage, totalUsage,
      upstream, written, ttft, providerReqs, providerErr, fnCalls, callCount,
      expected, got, replies, callResult, callErr, ret, firstResp, firstHadToolCalls, firstUsage,
      arrival>>

\* the state of the legacy azopenai provider: its registry and the calls on it
registryVars == <<registryTools, mu, rpc, rapp, rsnap, rdirty, lastWrite, lastEffect>>

\* the state of the y3 codec of AIRegisterFunctionFrame
codecVars == <<cpc, frame, fieldOrder, wire, decoded>>

\* a call of Service.OpSystemPrompt on its own
promptVars == <<opPc, opReq, opPrompt, opOp, opOut>>

\* the caller cache of the Service and the loadOrCreateCaller calls on it
cacheVars == <<cacheSize, cacheTTL, callers, made, closeCount, leftBy, lpc, lkey, lcaller,
               factoryCalls>>

\* the metadata of one cached Caller and the requests that use it
metaVars == <<mdPc, mdApi, mdHeap, md, mdRequests, mdOriginal, mdSeen>>

\* the serve command
serveVars == <<servePc, serveIn, options, aiConfig, zipper, registered, apiServer, listening>>

\* the reassembly of the tool calls of one stream
reVars == <<rePc, reDeltas, reOut>>

\* one call of the legacy provider's GetChatCompletions, without concurrent writes
azVars == <<azPc, azTools, azUpstream, azOut>>

\* the units that are exercised on their own
unitVars == <<promptVars, cacheVars, metaVars, serveVars, reVars, azVars>>

vars == <<serviceVars, registryVars, codecVars, unitVars>>

\* what a Service handler never assigns: its arguments and the other components
inputVars == <<api, registry, providerName, sysSlot, includeCallStack, clientTools, registryVars,
               codecVars, unitVars>>

loopVars == <<toolCallsMap, isFunctionCall, i, j, respSpan>>

usageVars == <<promptUsage, completionUsage, totalUsage>>

callerVars == <<fnCalls, callCount, expected, got, callResult, callErr, arrival>>

\* what the provider answered to the first call
firstVars == <<firstResp, firstHadToolCalls, firstUsage>>

Request(msgs, tls, stream) ==
    [Messages |-> msgs, Tools |-> tls, ToolChoice |-> "auto", Stream |-> stream]

Event(kind, body) == [kind |-> kind, body |-> body]

EmptyMap == [k \in {} |-> ToolCall(0, "", "", "", <<>>)]

NoResults == [k \in {} |-> <<>>]

\* the handler's locals as declared at lines 235-243, and an idle Caller
Locals ==
    /\ tools = <<>> /\ hasReqTools = FALSE /\ reqMessages = <<>>
    /\ toolCallsMap = EmptyMap /\ toolCalls = <<>>
    /\ assistantMessage = Msg("", <<>>, "", <<>>)
    /\ isFunctionCall = FALSE /\ i = 0 /\ j = 0 /\ respSpan = FALSE
    /\ promptUsage = 0 /\ completionUsage = 0 /\ totalUsage = 0
    /\ upstream = <<>> /\ written = <<>> /\ ttft = <<>>
    /\ providerReqs = <<>> /\ providerErr = "nil"
    /\ fnCalls = <<>> /\ callCount = 0 /\ expected = {} /\ got = NoResults
    /\ replies = 0 /\ callResult = <<>> /\ callErr = "nil" /\ arrival = <<>>
    /\ firstResp = Nil /\ firstHadToolCalls = FALSE /\ firstUsage = ZeroUsage
    /\ ret = Nil

\* azopenai init(): tools = make(map[string]map[uint32]ai.ToolCall)
NoApps == [a \in {} |-> <<>>]

\* an inner map without entries (make(map[uint32]ai.ToolCall), or the nil map)
NoTools == [t \in {} |-> <<>>]

\* a call on the registry: RegisterFunction(appID, tag, def) or
\* UnregisterFunction(appID, name)
RegistryCall(op, appID, tag, name, def) ==
    [op |-> op, appID |-> appID, tag |-> tag, name |-> name, def |-> def]

NoEffect == [replaced |-> Nil, removed |-> {}]

\* the registry after init(), with no call on it
RegistryFresh ==
    /\ registryTools = NoApps /\ mu = ""
    /\ rapp = "" /\ rsnap = NoTools /\ rdirty = FALSE
    /\ lastWrite = Nil /\ lastEffect = NoEffect

\* the Service does not use the legacy provider
RegistryIdle == RegistryFresh /\ rpc = "off"

\* a frame: appID and name as UTF-8 bytes, tag as uint32, definition as bytes
AIRegisterFunctionFrame(appID, name, tag, definition) ==
    [AppID |-> appID, Name |-> name, Tag |-> tag, Definition |-> definition]

\* new(frame.AIRegisterFunctionFrame): every field at its zero value
ZeroFrame == AIRegisterFunctionFrame(<<>>, <<>>, 0, <<>>)

\* no frame passes through the codec
CodecIdle ==
    /\ cpc = "off" /\ frame = ZeroFrame /\ fieldOrder = <<>> /\ wire = Nil /\ decoded = Nil

\* OpSystemPrompt is not called on its own
PromptIdle ==
    /\ opPc = "off" /\ opReq = Request(<<>>, <<>>, FALSE)
    /\ opPrompt = <<>> /\ opOp = "Disabled" /\ opOut = Nil

\* the longest life of a Service: the Callers its factory returns
MaxCallers == 3

\* the goroutines that call loadOrCreateCaller
Loaders == {"r1", "r2"}

\* the credentials of the requests
Credentials == {"k1", "k2", "k3"}

\* the Service has no caller cache in use
CacheIdle ==
    /\ cacheSize = 1 /\ cacheTTL = FALSE /\ callers = <<>> /\ made = 0
    /\ closeCount = [c \in 1..MaxCallers |-> 0]
    /\ leftBy = [c \in 1..MaxCallers |-> ""]
    /\ lpc = [p \in Loaders |-> "off"]
    /\ lkey = [p \in Loaders |-> ""]
    /\ lcaller = [p \in Loaders |-> 0]
    /\ factoryCalls = [k \in Credentials |-> 0]

\* the requests served with one Caller
MaxRequests == 2

\* metadata.M: a map from keys to values, "" for a key that is not set
MetadataKeys == {"appID", "trace"}

NoMetadata == [k \in MetadataKeys |-> ""]

\* no request uses a Caller's metadata
MetaIdle ==
    /\ mdPc = "off" /\ mdApi = "chat" /\ mdHeap = [r \in 0..MaxRequests |-> NoMetadata]
    /\ md = 0 /\ mdRequests = 0 /\ mdOriginal = NoMetadata /\ mdSeen = NoMetadata

\* the inputs of one run of the serve command
ServeInput(flag, fileErr, auth, bridge, providers, zipperErr) ==
    [config |-> flag, fileErr |-> fileErr, auth |-> auth, bridge |-> bridge,
     providers |-> providers, zipperErr |-> zipperErr]

\* the serve command is not run
ServeIdle ==
    /\ servePc = "off"
    /\ serveIn = ServeInput("", FALSE, "none", "absent", {}, FALSE)
    /\ options = {} /\ aiConfig = Nil /\ zipper = FALSE
    /\ registered = {} /\ apiServer = FALSE /\ listening = FALSE

\* no stream is reassembled on its own
ReassemblyIdle == rePc = "off" /\ reDeltas = <<>> /\ reOut = [panic |-> FALSE, calls |-> <<>>]

\* what GetChatCompletions of the legacy provider returns: the error, the
\* functions by tag, and whether the call ended in a run-time panic
AzResult(err, functions, panic) == [err |-> err, Functions |-> functions, panic |-> panic]

\* result.Functions == nil
NoFunctions == [t \in {} |-> <<>>]

\* the upstream request of the legacy provider: how it ends, the number of
\* choices of the response and the tool calls of the first choice
AzUpstreamResult(end, nchoices, calls) == [end |-> end, nchoices |-> nchoices, calls |-> calls]

\* the legacy provider is not called on its own
AzureIdle ==
    /\ azPc = "off" /\ azTools = NoTools
    /\ azUpstream = AzUpstreamResult("ok", 1, <<>>)
    /\ azOut = AzResult("nil", NoFunctions, FALSE)

\* no unit is exercised on its own
UnitsIdle == PromptIdle /\ CacheIdle /\ MetaIdle /\ ServeIdle /\ ReassemblyIdle /\ AzureIdle

\* no request is handled by the Service
ServiceOff ==
    /\ api = "chat" /\ registry = <<>> /\ providerName = "openai"
    /\ sysSlot = <<"Disabled", <<>>>> /\ includeCallStack = FALSE /\ clientTools = <<>>
    /\ pc = "off" /\ outcome = "running"
    /\ req = Request(<<>>, <<>>, FALSE)
    /\ Locals

Init ==
    /\ api \in {"chat", "invoke"}
    /\ registry \in Registries
    /\ \E s \in Setups : providerName = s[1] /\ sysSlot = s[2]
    /\ includeCallStack \in BOOLEAN
    /\ pc = "prepare"
    /\ outcome = "running"
    /\ IF api = "chat"
       THEN /\ req \in { Request(InputMessages, tls, st) : tls \in ClientTools, st \in BOOLEAN }
            /\ clientTools = req.Tools
            /\ includeCallStack = FALSE
       ELSE /\ req = Request(<<>>, <<>>, FALSE)
            /\ clientTools = <<>>
            /\ providerName = "openai"
            /\ sysSlot = <<"Disabled", <<>>>>
    /\ Locals
    /\ RegistryIdle
    /\ CodecIdle
    /\ UnitsIdle

\* return err / return nil / a run-time panic end the handler
Return(o) == pc' = "done" /\ outcome' = o

\* ------------------------------------------------ Service.GetChatCompletions
\* lines 216-243: clone the metadata, list the tools, attach them, apply the
\* system prompt op, declare the locals
Prepare ==
    /\ pc = "prepare" /\ api = "chat"
    /\ \/ /\ Return("ErrListToolCalls")
          /\ UNCHANGED <<req, tools, hasReqTools, reqMessages>>
       \/ LET a == addToolsToRequest(req, registry)
              r == OpSystemPrompt(a.req, sysSlot[2], sysSlot[1])
          IN  /\ tools' = registry
              /\ hasReqTools' = a.hasReqTools
              /\ req' = r
              /\ reqMessages' = r.Messages
              /\ pc' = "first"
              /\ UNCHANGED outcome
    /\ UNCHANGED <<inputVars, firstVars, loopVars, usageVars, callerVars, toolCalls, assistantMessage,
                   upstream, written, ttft, providerReqs, providerErr, replies, ret>>

\* the error of the provider is not looked at
ProviderNeverFailed(r) == FALSE

\* err != nil after a provider call or a Recv
ProviderFailed(r) == r # "ok"

\* lines 246-255: the first call in stream mode
FirstCallStream ==
    /\ pc = "first" /\ req.Stream
    /\ providerReqs' = Append(providerReqs, req)
    /\ \E r \in {"ok"} \cup ProviderErrs :
          /\ providerErr' = IF r = "ok" THEN providerErr ELSE r
          /\ IF ProviderFailed(r) THEN Return(r) ELSE pc' = "recv1" /\ UNCHANGED outcome
    /\ UNCHANGED <<inputVars, firstVars, loopVars, usageVars, callerVars, req, tools, hasReqTools,
                   reqMessages, toolCalls, assistantMessage, upstream, written, ttft,
                   replies, ret>>

\* a chunk with tool-call deltas (line 294)
IsToolCallChunk(c) == c.nchoices > 0 /\ Len(c.deltas) > 0

\* every chunk without tool calls is written
ForwardsAlways(seenToolCall) == TRUE

\* line 322: a chunk without tool calls is written unless a tool call was seen
ForwardsContent(seenToolCall) == ~seenToolCall

\* lines 264-329: one Recv of the first stream that yields a chunk
RecvFirstChunk ==
    /\ pc = "recv1" /\ Len(upstream) < MaxChunks
    /\ \E c \in FirstChunks :
        /\ upstream' = Append(upstream, c)
        /\ firstHadToolCalls' = (firstHadToolCalls \/ (c.nchoices > 0 /\ c.deltas # <<>>))
        /\ firstUsage' = IF c.usage # Nil THEN c.usage[1] ELSE firstUsage
        /\ IF hasReqTools
           THEN /\ respSpan' = TRUE
                /\ ttft' = IF i = 0 THEN Append(ttft, Len(written)) ELSE ttft
                /\ written' = Append(written, Event("chunk", c))
                /\ i' = i + 1
                /\ UNCHANGED <<pc, outcome, toolCallsMap, isFunctionCall, j, usageVars>>
           ELSE IF c.pf
           THEN UNCHANGED <<pc, outcome, loopVars, usageVars, written, ttft>>
           ELSE /\ IF c.usage # Nil
                   THEN /\ promptUsage' = c.usage[1].prompt
                        /\ completionUsage' = c.usage[1].completion
                        /\ totalUsage' = c.usage[1].total
                   ELSE UNCHANGED usageVars
                /\ IF IsToolCallChunk(c)
                   THEN /\ isFunctionCall' = TRUE
                        /\ UNCHANGED <<written, ttft, respSpan>>
                        /\ IF DerefsNilIndex(c.deltas)
                           THEN Return("panic") /\ UNCHANGED <<toolCallsMap, i, j>>
                           ELSE /\ toolCallsMap' = ApplyDeltas(toolCallsMap, c.deltas)
                                /\ j' = j + 1
                                /\ i' = i + 1
                                /\ UNCHANGED <<pc, outcome>>
                   ELSE /\ written' = IF ForwardsContent(isFunctionCall)
                                      THEN Append(written, Event("chunk", c)) ELSE written
                        /\ IF i = 0 /\ j = 0 /\ ~isFunctionCall
                           THEN respSpan' = TRUE /\ ttft' = Append(ttft, Len(written'))
                           ELSE UNCHANGED <<respSpan, ttft>>
                        /\ i' = i + 1
                        /\ UNCHANGED <<pc, outcome, toolCallsMap, isFunctionCall, j>>
    /\ UNCHANGED <<inputVars, firstResp, callerVars, req, tools, hasReqTools, reqMessages,
                   toolCalls, assistantMessage, providerReqs, providerErr, replies, ret>>

\* lines 272-274: Recv returns an error other than io.EOF
RecvFirstErr ==
    /\ pc = "recv1"
    /\ \E e \in ProviderErrs : providerErr' = e /\ Return(e)
    /\ UNCHANGED <<inputVars, firstVars, loopVars, usageVars, callerVars, req, tools, hasReqTools,
                   reqMessages, toolCalls, assistantMessage, upstream, written, ttft,
                   providerReqs, replies, ret>>

\* lines 269-271 and 330-342: io.EOF ends the first stream; resStream and the
\* loop counters i, j leave scope when the stream block is left for the dispatch
RecvFirstEOF ==
    /\ pc = "recv1"
    /\ IF ~isFunctionCall \/ hasReqTools
       THEN /\ IF ~respSpan
               THEN Return("panic") /\ UNCHANGED written
               ELSE written' = Append(written, Event("done", <<>>)) /\ Return("nil")
            /\ UNCHANGED <<toolCalls, assistantMessage>>
       ELSE IF MapSliceOutOfRange(toolCallsMap)
       THEN Return("panic") /\ UNCHANGED <<written, toolCalls, assistantMessage>>
       ELSE /\ toolCalls' = mapToSliceTools(toolCallsMap)
            /\ assistantMessage' = Msg("assistant", <<>>, "", toolCalls')
            /\ pc' = "dispatch"
            /\ UNCHANGED <<outcome, written>>
    /\ IF pc' = "dispatch"
       THEN i' = 0 /\ j' = 0 /\ upstream' = <<>>
       ELSE UNCHANGED <<i, j, upstream>>
    /\ UNCHANGED <<inputVars, firstVars, toolCallsMap, isFunctionCall, respSpan, usageVars, callerVars,
                   req, tools, hasReqTools, reqMessages, ttft, providerReqs, providerErr,
                   replies, ret>>

\* the finish reason alone decides, whoever sent the tools
IsFunctionCallRespAnyTools(resp, hasTools) == resp.finish = "tool_calls"

\* the presence of tool calls decides instead of the finish reason
IsFunctionCallRespByCalls(resp, hasTools) == Len(resp.calls) > 0 /\ ~hasTools

\* line 356: the first response asks for tool calls and the client sent no tools
IsFunctionCallResp(resp, hasTools) == resp.finish = "tool_calls" /\ ~hasTools

\* lines 344-366: the first call in non-stream mode
FirstCallNonStream ==
    /\ pc = "first" /\ ~req.Stream
    /\ providerReqs' = Append(providerReqs, req)
    /\ \/ /\ \E e \in ProviderErrs : providerErr' = e /\ Return(e)
          /\ UNCHANGED <<usageVars, toolCalls, assistantMessage, written, firstVars>>
       \/ \E resp \in FirstResps :
            /\ firstResp' = Some(resp)
            /\ firstHadToolCalls' = (resp.nchoices > 0 /\ resp.finish = "tool_calls")
            /\ firstUsage' = resp.usage
            /\ promptUsage' = resp.usage.prompt
            /\ completionUsage' = resp.usage.completion
            /\ totalUsage' = resp.usage.completion
            /\ UNCHANGED providerErr
            /\ IF resp.nchoices = 0
               THEN Return("panic") /\ UNCHANGED <<toolCalls, assistantMessage, written>>
               ELSE IF IsFunctionCallResp(resp, hasReqTools)
               THEN /\ toolCalls' = toolCalls \o resp.calls
                    /\ assistantMessage' = Msg("assistant", resp.content, "", resp.calls)
                    /\ pc' = "dispatch"
                    /\ UNCHANGED <<outcome, written>>
               ELSE /\ written' = Append(written, Event("json", resp))
                    /\ Return("nil")
                    /\ UNCHANGED <<toolCalls, assistantMessage>>
    /\ UNCHANGED <<inputVars, loopVars, callerVars, req, tools, hasReqTools, reqMessages,
                   upstream, ttft, replies, ret>>

IDsOf(calls) == { calls[k].id : k \in 1..Len(calls) }

\* Caller.Call, steps 1-3: the expected toolCallIDs are computed, the pending
\* entry is inserted and one call frame per tool call is written to the Source
CallStart(calls) ==
    /\ fnCalls' = calls
    /\ callCount' = callCount + 1
    /\ expected' = IDsOf(calls)
    /\ got' = NoResults
    /\ arrival' = <<>>
    /\ UNCHANGED <<callResult, callErr>>

\* the tool calls are handed to caller.Call without telling the client
DispatchWithoutEvent ==
    /\ pc = "dispatch" /\ api = "chat"
    /\ CallStart(findTools(tools, toolCalls))
    /\ pc' = "calling"
    /\ UNCHANGED <<inputVars, firstVars, loopVars, usageVars, outcome, req, tools, hasReqTools,
                   reqMessages, toolCalls, assistantMessage, upstream, written, ttft,
                   providerReqs, providerErr, replies, ret>>

\* lines 368-380: find the registered tools that were called, tell the client
\* the tool calls, hand the calls to caller.Call
Dispatch ==
    /\ pc = "dispatch" /\ api = "chat"
    /\ written' = Append(written, Event("toolcalls", toolCalls))
    /\ CallStart(findTools(tools, toolCalls))
    /\ pc' = "calling"
    /\ UNCHANGED <<inputVars, firstVars, loopVars, usageVars, outcome, req, tools, hasReqTools,
                   reqMessages, toolCalls, assistantMessage, upstream, ttft,
                   providerReqs, providerErr, replies, ret>>

\* ------------------------------------------------ Caller (pending table)
ToolResult(id, content, timedOut) ==
    [toolCallID |-> id, content |-> content, timedOut |-> timedOut]

\* only the delivered results are returned, nothing stands in for a missing one
ResultsDeliveredOnly(calls, delivered) ==
    LET answered == SelectSeq(calls, LAMBDA c : c.id \in DOMAIN delivered)
    IN  [k \in 1..Len(answered) |-> ToolResult(answered[k].id, delivered[answered[k].id], FALSE)]

\* step 5: one result per input tool call, in the order of the input; a call
\* without a delivered result gets the synthetic empty result
ResultsInCallOrder(calls, delivered) ==
    [k \in 1..Len(calls) |->
        IF calls[k].id \in DOMAIN delivered
        THEN ToolResult(calls[k].id, delivered[calls[k].id], FALSE)
        ELSE ToolResult(calls[k].id, <<>>, TRUE)]

\* the reducer routes a result frame by reqID into the pending entry; a frame
\* of an unknown reqID or of an unexpected toolCallID is dropped
WorkerReply ==
    /\ pc = "calling"
    /\ replies < MaxReplies
    /\ replies' = replies + 1
    /\ \E id \in ReplyIDs, content \in ReplyContents, known \in BOOLEAN :
          IF known /\ id \in expected
          THEN \/ /\ id \notin DOMAIN got
                  /\ got' = [x \in DOMAIN got \cup {id} |-> IF x = id THEN content ELSE got[x]]
                  /\ arrival' = Append(arrival, id)
               \/ /\ id \in DOMAIN got
                  /\ got' \in {got, [got EXCEPT ![id] = content]}
                  /\ UNCHANGED arrival
          ELSE UNCHANGED <<got, arrival>>
    /\ UNCHANGED <<inputVars, firstVars, loopVars, usageVars, pc, outcome, req, tools, hasReqTools,
                   reqMessages, toolCalls, assistantMessage, upstream, written, ttft,
                   providerReqs, providerErr, fnCalls, callCount, expected, callResult,
                   callErr, ret>>

\* a result frame that arrives after Call has returned finds no pending entry
\* and is dropped
LateReply ==
    /\ pc \in {"called", "second", "recv2", "inv_second", "done"}
    /\ callCount > 0
    /\ UNCHANGED vars

CallReturn(results, err) ==
    /\ pc = "calling"
    /\ callResult' = results
    /\ callErr' = err
    /\ expected' = {}
    /\ got' = NoResults
    /\ replies' = 0
    /\ pc' = "called"
    /\ UNCHANGED <<inputVars, firstVars, loopVars, usageVars, outcome, req, tools, hasReqTools,
                   reqMessages, toolCalls, assistantMessage, upstream, written, ttft,
                   providerReqs, providerErr, fnCalls, callCount, arrival, ret>>

\* step 4(a): every expected toolCallID has delivered its result
CallComplete ==
    /\ DOMAIN got = expected
    /\ CallReturn(ResultsInCallOrder(fnCalls, got), "nil")

\* step 4(c): the deadline (CallTimeout) expires
CallTimeout ==
    CallReturn(ResultsInCallOrder(fnCalls, got), "nil")

\* step 4(b): the request context is cancelled during the wait
CallCancel ==
    CallReturn(<<>>, "CANCELLED")

\* Close() while the call is pending
CallClose ==
    CallReturn(<<>>, "CALLER_CLOSED")

\* ------------------------------------------------ second phase
\* the error of caller.Call is not looked at
CallNeverFailed(err) == FALSE

\* line 381: caller.Call returned an error
CallFailed(err) == err # "nil"

\* lines 381-403: return the error of caller.Call, or tell the client the
\* results and build the follow-up request
AfterCall ==
    /\ pc = "called" /\ api = "chat"
    /\ IF CallFailed(callErr)
       THEN Return(callErr) /\ UNCHANGED <<written, req>>
       ELSE /\ written' = Append(written, Event("results", callResult))
            /\ req' = FollowUp(req, reqMessages, assistantMessage, callResult, providerName)
            /\ pc' = "second"
            /\ UNCHANGED outcome
    /\ UNCHANGED <<inputVars, firstVars, loopVars, usageVars, callerVars, tools, hasReqTools,
                   reqMessages, toolCalls, assistantMessage, upstream, ttft,
                   providerReqs, providerErr, replies, ret>>

\* lines 407-413: the second call in stream mode
SecondCallStream ==
    /\ pc = "second" /\ req.Stream
    /\ providerReqs' = Append(providerReqs, req)
    /\ \E r \in {"ok"} \cup ProviderErrs :
          /\ providerErr' = IF r = "ok" THEN providerErr ELSE r
          /\ IF ProviderFailed(r)
             THEN Return(r) /\ UNCHANGED upstream
             ELSE pc' = "recv2" /\ upstream' = <<>> /\ UNCHANGED outcome
    /\ UNCHANGED <<inputVars, firstVars, loopVars, usageVars, callerVars, req, tools, hasReqTools,
                   reqMessages, toolCalls, assistantMessage, written, ttft, replies, ret>>

\* the chunk is forwarded as the provider sent it
WithoutFirstUsage(c, p, k, t) == c

\* lines 432-436: the first call's usage is added to a chunk that carries usage
WithFirstUsage(c, p, k, t) ==
    IF c.usage # Nil THEN [c EXCEPT !.usage = Some(AddUsage(c.usage[1], p, k, t))] ELSE c

\* io.EOF writes the terminator but the loop goes on reading
RecvSecondPastEOF ==
    /\ pc = "recv2"
    /\ \/ /\ written' = Append(written, Event("done", <<>>))
          /\ UNCHANGED <<pc, outcome, upstream, providerErr>>
       \/ /\ \E e \in ProviderErrs : providerErr' = e /\ Return(e)
          /\ UNCHANGED <<upstream, written>>
       \/ /\ Len(upstream) < MaxChunks2
          /\ \E c \in SecondChunks :
                /\ upstream' = Append(upstream, c)
                /\ written' = Append(written,
                       Event("chunk", WithFirstUsage(c, promptUsage, completionUsage, totalUsage)))
          /\ UNCHANGED <<pc, outcome, providerErr>>
    /\ UNCHANGED <<inputVars, firstVars, loopVars, usageVars, callerVars, req, tools, hasReqTools,
                   reqMessages, toolCalls, assistantMessage, ttft, providerReqs, replies, ret>>

\* lines 419-438: one Recv of the second stream
RecvSecond ==
    /\ pc = "recv2"
    /\ \/ /\ written' = Append(written, Event("done", <<>>))
          /\ Return("nil")
          /\ UNCHANGED <<upstream, providerErr>>
       \/ /\ \E e \in ProviderErrs : providerErr' = e /\ Return(e)
          /\ UNCHANGED <<upstream, written>>
       \/ /\ Len(upstream) < MaxChunks2
          /\ \E c \in SecondChunks :
                /\ upstream' = Append(upstream, c)
                /\ written' = Append(written,
                       Event("chunk", WithFirstUsage(c, promptUsage, completionUsage, totalUsage)))
          /\ UNCHANGED <<pc, outcome, providerErr>>
    /\ UNCHANGED <<inputVars, firstVars, loopVars, usageVars, callerVars, req, tools, hasReqTools,
                   reqMessages, toolCalls, assistantMessage, ttft, providerReqs, replies, ret>>

\* lines 440-455: the second call in non-stream mode
SecondCallNonStream ==
    /\ pc = "second" /\ ~req.Stream
    /\ providerReqs' = Append(providerReqs, req)
    /\ \/ /\ \E e \in ProviderErrs : providerErr' = e /\ Return(e)
          /\ UNCHANGED written
       \/ /\ \E resp \in SecondResps :
                written' = Append(written, Event("json",
                    [resp EXCEPT !.usage = AddUsage(resp.usage, promptUsage, completionUsage, totalUsage)]))
          /\ Return("nil")
          /\ UNCHANGED providerErr
    /\ UNCHANGED <<inputVars, firstVars, loopVars, usageVars, callerVars, req, tools, hasReqTools,
                   reqMessages, toolCalls, assistantMessage, upstream, ttft, replies, ret>>

\* ------------------------------------------------ Service.GetInvoke
BaseSystemMessage == <<"base">>

UserInstruction == <<"do">>

\* the "- description\n" lines of the registered tools
RECURSIVE ToolLines(_)
ToolLines(tls) ==
    IF tls = <<>> THEN <<>> ELSE (<<"- ">> \o Head(tls).desc \o <<"\n">>) \o ToolLines(Tail(tls))

\* chainMessage: the preceding assistant message (nil or one) and the tool messages
ChainMessage(am, tms) == [assistant |-> am, toolMessages |-> tms]

\* prepareMessages with the tool descriptions in the system message of every call
prepareMessagesWithTools(base, instruction, chain, tls, withTool) ==
    LET SystemPrompt == ((base \o <<"\n\n">>) \o <<"## Instructions\n">>) \o (ToolLines(tls) \o <<"\n">>)
        previous ==
            IF chain.assistant # Nil
            THEN chain.assistant \o
                 [k \in 1..Len(chain.toolMessages) |->
                    Msg("tool", chain.toolMessages[k].content, chain.toolMessages[k].tool_call_id, <<>>)]
            ELSE <<>>
    IN  (<<Msg("system", SystemPrompt, "", <<>>)>> \o previous)
        \o <<Msg("user", instruction, "", <<>>)>>

prepareMessages(base, instruction, chain, tls, withTool) ==
    LET systemInstructions ==
            <<"## Instructions\n">> \o (IF withTool THEN ToolLines(tls) \o <<"\n">> ELSE <<>>)
        SystemPrompt == (base \o <<"\n\n">>) \o systemInstructions
        previous ==
            IF chain.assistant # Nil
            THEN chain.assistant \o
                 [k \in 1..Len(chain.toolMessages) |->
                    Msg("tool", chain.toolMessages[k].content, chain.toolMessages[k].tool_call_id, <<>>)]
            ELSE <<>>
    IN  (<<Msg("system", SystemPrompt, "", <<>>)>> \o previous)
        \o <<Msg("user", instruction, "", <<>>)>>

\* ai.ConvertToInvokeResponse: the response of the first choice as an InvokeResponse
ConvertToInvokeResponse(resp) ==
    [Content |-> resp.content,
     FinishReason |-> resp.finish,
     ToolCalls |-> IF resp.finish = "tool_calls" THEN resp.calls ELSE <<>>,
     ToolMessages |-> <<>>,
     AssistantMessage |-> Msg("assistant", resp.content, "", resp.calls),
     TokenUsage |-> resp.usage]

\* line 153: no tool call was fired
NoToolCallsFired(res) == res.FinishReason # "tool_calls"

\* lines 116-134
InvokePrepare ==
    /\ pc = "prepare" /\ api = "invoke"
    /\ \/ /\ Return("ErrListToolCalls")
          /\ UNCHANGED <<req, tools>>
       \/ /\ tools' = registry
          /\ req' = [Messages |-> prepareMessages(BaseSystemMessage, UserInstruction,
                                                    ChainMessage(Nil, <<>>), registry, TRUE),
                      Tools |-> registry, ToolChoice |-> "nil", Stream |-> FALSE]
          /\ pc' = "inv_first"
          /\ UNCHANGED outcome
    /\ UNCHANGED <<inputVars, firstVars, loopVars, usageVars, callerVars, hasReqTools, reqMessages,
                   toolCalls, assistantMessage, upstream, written, ttft, providerReqs,
                   providerErr, replies, ret>>

\* lines 139-167: the first call; without tool calls the converted response is
\* returned, else the tool calls are handed to caller.Call
InvokeFirstCall ==
    /\ pc = "inv_first"
    /\ providerReqs' = Append(providerReqs, req)
    /\ \/ /\ \E e \in ProviderErrs : providerErr' = e /\ Return(e)
          /\ UNCHANGED <<usageVars, callerVars, toolCalls, assistantMessage, ret, firstVars>>
       \/ \E resp \in { r \in FirstResps : r.nchoices > 0 } :
            /\ firstResp' = Some(resp)
            /\ firstHadToolCalls' = (resp.finish = "tool_calls")
            /\ firstUsage' = resp.usage
            /\ promptUsage' = resp.usage.prompt
            /\ completionUsage' = resp.usage.completion
            /\ UNCHANGED <<totalUsage, providerErr>>
            /\ \/ /\ Return("ErrConvert")
                  /\ UNCHANGED <<callerVars, toolCalls, assistantMessage, ret>>
               \/ LET res == ConvertToInvokeResponse(resp) IN
                    IF NoToolCallsFired(res)
                    THEN /\ ret' = Some(res)
                         /\ Return("nil")
                         /\ UNCHANGED <<callerVars, toolCalls, assistantMessage>>
                    ELSE /\ toolCalls' = res.ToolCalls
                         /\ assistantMessage' = res.AssistantMessage
                         /\ CallStart(res.ToolCalls)
                         /\ pc' = "calling"
                         /\ UNCHANGED <<outcome, ret>>
    /\ UNCHANGED <<inputVars, loopVars, req, tools, hasReqTools, reqMessages, upstream,
                   written, ttft, replies>>

\* lines 168-189: return the error of caller.Call, or build the second request
InvokeAfterCall ==
    /\ pc = "called" /\ api = "invoke"
    /\ IF CallFailed(callErr)
       THEN Return(callErr) /\ UNCHANGED req
       ELSE /\ req' = [Messages |-> prepareMessages(BaseSystemMessage, UserInstruction,
                                        ChainMessage(Some(assistantMessage), llmCallsOf(callResult)),
                                        tools, FALSE),
                       Tools |-> <<>>, ToolChoice |-> "nil", Stream |-> FALSE]
            /\ pc' = "inv_second"
            /\ UNCHANGED outcome
    /\ UNCHANGED <<inputVars, firstVars, loopVars, usageVars, callerVars, tools, hasReqTools,
                   reqMessages, toolCalls, assistantMessage, upstream, written, ttft,
                   providerReqs, providerErr, replies, ret>>

\* lines 190-212: the second call and the response returned to the caller
InvokeSecondCall ==
    /\ pc = "inv_second"
    /\ providerReqs' = Append(providerReqs, req)
    /\ \/ /\ \E e \in ProviderErrs : providerErr' = e /\ Return(e)
          /\ UNCHANGED ret
       \/ /\ Return("ErrConvert")
          /\ UNCHANGED <<providerErr, ret>>
       \/ /\ \E resp \in SecondResps :
                LET summed == [resp EXCEPT !.usage.prompt = @ + promptUsage,
                                           !.usage.completion = @ + completionUsage]
                    res2 == ConvertToInvokeResponse(summed)
                IN  ret' = Some(IF includeCallStack
                                THEN [res2 EXCEPT !.ToolCalls = toolCalls,
                                                  !.ToolMessages = llmCallsOf(callResult)]
                                ELSE res2)
          /\ Return("nil")
          /\ UNCHANGED providerErr
    /\ UNCHANGED <<inputVars, firstVars, loopVars, usageVars, callerVars, req, tools, hasReqTools,
                   reqMessages, toolCalls, assistantMessage, upstream, written, ttft, replies>>

\* ------------------------------------------------ specification
Next ==
    \/ Prepare
    \/ FirstCallStream
    \/ RecvFirstChunk
    \/ RecvFirstErr
    \/ RecvFirstEOF
    \/ FirstCallNonStream
    \/ Dispatch
    \/ WorkerReply
    \/ LateReply
    \/ CallComplete
    \/ CallTimeout
    \/ CallCancel
    \/ CallClose
    \/ AfterCall
    \/ SecondCallStream
    \/ RecvSecond
    \/ SecondCallNonStream
    \/ InvokePrepare
    \/ InvokeFirstCall
    \/ InvokeAfterCall
    \/ InvokeSecondCall

Spec == Init /\ [][Next]_vars

\* ------------------------------------------------ azopenai: the tool registry
Apps == {"a", "b"}

Tags == {1, 2}

FunctionDefinition(name, description) == [Name |-> name, Description |-> description]

FunctionDefinitions ==
    { FunctionDefinition("f", <<"A">>), FunctionDefinition("f", <<"B">>),
      FunctionDefinition("g", <<"A">>) }

FunctionNames == { d.Name : d \in FunctionDefinitions }

NoDefinition == FunctionDefinition("", <<>>)

\* lines 186-189: the ai.ToolCall stored for a definition
RegistryToolCall(def) == [Type |-> "function", Function |-> def]

\* the entry of a tag that is taken is left as it is
RegisterFunctionIfFree(ts, appID, tag, def) ==
    LET appTools == IF appID \in DOMAIN ts THEN ts[appID] ELSE NoTools
        stored   == [t \in DOMAIN appTools \cup {tag} |->
                        IF t \in DOMAIN appTools THEN appTools[t] ELSE RegistryToolCall(def)]
    IN  [a \in DOMAIN ts \cup {appID} |-> IF a = appID THEN stored ELSE ts[a]]

\* lines 182-190: appTools[tag] replaces or adds the entry of tag
RegisterFunction(ts, appID, tag, def) ==
    LET appTools == IF appID \in DOMAIN ts THEN ts[appID] ELSE NoTools
        stored   == [t \in DOMAIN appTools \cup {tag} |->
                        IF t = tag THEN RegistryToolCall(def) ELSE appTools[t]]
    IN  [a \in DOMAIN ts \cup {appID} |-> IF a = appID THEN stored ELSE ts[a]]

\* only one of the tags of the name is collected
OneMatchingTag(appTools, name) ==
    LET all == { tag \in DOMAIN appTools : appTools[tag].Function.Name = name }
    IN  IF all = {} THEN {} ELSE { CHOOSE tag \in all : \A other \in all : tag <= other }

\* lines 201-206: the tags whose tool has the function name
MatchingTags(appTools, name) ==
    { tag \in DOMAIN appTools : appTools[tag].Function.Name = name }

\* every entry of the appID is deleted, whatever its function name
UnregisterEveryFunction(ts, appID, name) ==
    IF appID \in DOMAIN ts THEN [ts EXCEPT ![appID] = NoTools] ELSE ts

\* lines 198-213: the entries of the matching tags are deleted from appTools
UnregisterFunction(ts, appID, name) ==
    IF appID \in DOMAIN ts
    THEN [ts EXCEPT ![appID] =
            [t \in DOMAIN ts[appID] \ MatchingTags(ts[appID], name) |-> ts[appID][t]]]
    ELSE ts

\* lines 218-224: the inner map of the appID itself, or nil
ListToolCalls(ts, appID) == IF appID \in DOMAIN ts THEN ts[appID] ELSE NoTools

Workers == {"w1", "w2"}

\* the calls the workers make: every call on tenant a, and the tool g of tenant b
RegistryCalls ==
    { RegistryCall("register", "a", t, "", d) : t \in Tags, d \in FunctionDefinitions }
    \cup { RegistryCall("unregister", "a", 0, n, NoDefinition) : n \in FunctionNames }
    \cup { RegistryCall("register", "b", 1, "", FunctionDefinition("g", <<"A">>)),
           RegistryCall("unregister", "b", 0, "g", NoDefinition) }

\* the Go runtime has not ended the process for a concurrent map access
Running == rpc # "fatal"

\* the call ranges over the inner map of appID
RangesOver(appID) == rpc \in {"range1", "range2"} /\ rapp = appID

\* mu.Lock() at lines 180 and 196
RegistryLock(w) ==
    /\ Running /\ mu = ""
    /\ mu' = w
    /\ UNCHANGED <<serviceVars, codecVars, unitVars, registryTools, rpc, rapp, rsnap, rdirty, lastWrite, lastEffect>>

\* lines 182-191: the body of RegisterFunction and the deferred mu.Unlock()
RegisterBody(w) ==
    /\ Running /\ mu = w
    /\ \E c \in { r \in RegistryCalls : r.op = "register" } :
        /\ registryTools' = RegisterFunction(registryTools, c.appID, c.tag, c.def)
        /\ rdirty' = (rdirty \/ RangesOver(c.appID))
        /\ lastWrite' = Some(c)
        /\ lastEffect' =
              [replaced |-> IF /\ lastWrite # Nil
                               /\ lastWrite[1].op = "register"
                               /\ lastWrite[1].appID = c.appID
                               /\ lastWrite[1].tag = c.tag
                            THEN Some(lastWrite[1].def) ELSE Nil,
               removed  |-> {}]
    /\ mu' = ""
    /\ UNCHANGED <<serviceVars, codecVars, unitVars, rpc, rapp, rsnap>>

\* lines 198-214: the body of UnregisterFunction and the deferred mu.Unlock()
UnregisterBody(w) ==
    /\ Running /\ mu = w
    /\ \E c \in { r \in RegistryCalls : r.op = "unregister" } :
        LET gone == MatchingTags(ListToolCalls(registryTools, c.appID), c.name) IN
        /\ registryTools' = UnregisterFunction(registryTools, c.appID, c.name)
        /\ rdirty' = (rdirty \/ (RangesOver(c.appID) /\ gone # {}))
        /\ lastWrite' = Some(c)
        /\ lastEffect' = [replaced |-> Nil, removed |-> gone]
    /\ mu' = ""
    /\ UNCHANGED <<serviceVars, codecVars, unitVars, rpc, rapp, rsnap>>

\* lines 92-103: GetChatCompletions lists the tools of the appID without
\* taking mu, returns ErrNoFunctionCall when there is none, and starts to
\* range over the map it got (lines 105-107)
AzListToolCalls ==
    /\ rpc = "idle"
    /\ \E appID \in Apps :
          LET mapTools == ListToolCalls(registryTools, appID) IN
          IF DOMAIN mapTools = {}
          THEN UNCHANGED <<rpc, rapp, rsnap>>
          ELSE rpc' = "range1" /\ rapp' = appID /\ rsnap' = mapTools
    /\ UNCHANGED <<serviceVars, codecVars, unitVars, registryTools, mu, rdirty, lastWrite, lastEffect>>

\* the end of a range over mapTools: a write that ran meanwhile is a
\* concurrent map access, which the runtime may or may not end the process for
RangeEnds(next) ==
    /\ rdirty' = FALSE
    /\ \/ rpc' = next
       \/ rdirty /\ rpc' = "fatal"

\* lines 105-107: the tools are copied into the request body
AzRangeTools ==
    /\ rpc = "range1"
    /\ RangeEnds("upstream")
    /\ UNCHANGED <<serviceVars, codecVars, unitVars, registryTools, mu, rapp, rsnap, lastWrite, lastEffect>>

\* lines 108-158: the upstream request returns; an error or a response without
\* tool calls ends the call, else the calls are matched against mapTools
AzUpstream ==
    /\ rpc = "upstream"
    /\ \/ rpc' = "idle" /\ rapp' = "" /\ rsnap' = NoTools
       \/ rpc' = "range2" /\ UNCHANGED <<rapp, rsnap>>
    /\ UNCHANGED <<serviceVars, codecVars, unitVars, registryTools, mu, rdirty, lastWrite, lastEffect>>

\* lines 160-175: the range over mapTools that matches the calls, and the return
AzMatchCalls ==
    /\ rpc = "range2"
    /\ RangeEnds("idle")
    /\ IF rpc' = "idle" THEN rapp' = "" /\ rsnap' = NoTools ELSE UNCHANGED <<rapp, rsnap>>
    /\ UNCHANGED <<serviceVars, codecVars, unitVars, registryTools, mu, lastWrite, lastEffect>>

RegistryInit == ServiceOff /\ CodecIdle /\ UnitsIdle /\ RegistryFresh /\ rpc = "idle"

RegistryNext ==
    \/ \E w \in Workers : RegistryLock(w)
    \/ \E w \in Workers : RegisterBody(w)
    \/ \E w \in Workers : UnregisterBody(w)
    \/ AzListToolCalls
    \/ AzRangeTools
    \/ AzUpstream
    \/ AzMatchCalls

SpecRegistry == RegistryInit /\ [][RegistryNext]_vars

\* ------------------------------------------------ y3codec: AIRegisterFunctionFrame
tagAIRegisterFunctionAppID == 1

tagAIRegisterFunctionName == 2

tagAIRegisterFunctionTag == 3

tagAIRegisterFunctionDefinition == 4

\* SetUInt32Value: a 32-bit integer as four bytes, big-endian
UInt32Bytes(n) ==
    << (n \div 2^24) % 256, (n \div 2^16) % 256, (n \div 2^8) % 256, n % 256 >>

\* ToUInt32: the value of four big-endian bytes
ToUInt32(b) == ((b[1] * 2^24 + b[2] * 2^16) + b[3] * 2^8) + b[4]

\* a primitive packet: its tag, the length of its value, its value
PrimitivePacket(tag, value) == <<tag, Len(value)>> \o value

\* lines 690-701: the four primitive packets of a frame, by field number
FieldPackets(f) ==
    << PrimitivePacket(tagAIRegisterFunctionAppID, f.AppID),
       PrimitivePacket(tagAIRegisterFunctionName, f.Name),
       PrimitivePacket(tagAIRegisterFunctionTag, UInt32Bytes(f.Tag)),
       PrimitivePacket(tagAIRegisterFunctionDefinition, f.Definition) >>

RECURSIVE Concat(_)
Concat(seqs) == IF seqs = <<>> THEN <<>> ELSE Head(seqs) \o Concat(Tail(seqs))

\* a node packet of the frame's type with the packets added in the given order
NodePacket(f, order) ==
    [Tag |-> "AIRegisterFunctionFrame",
     Payload |-> Concat([k \in 1..Len(order) |-> FieldPackets(f)[order[k]]])]

\* lines 689-711: appID, name, tag and definition are added in this order
encodeAIRegisterFunctionFrame(f) == NodePacket(f, <<1, 2, 3, 4>>)

\* y3.DecodeToNodePacket: the primitive packets of the payload by tag; input
\* that ends inside a packet fails
RECURSIVE DecodePrimitivePackets(_, _)
DecodePrimitivePackets(b, acc) ==
    IF b = <<>> THEN [err |-> "nil", PrimitivePackets |-> acc]
    ELSE IF Len(b) < 2 \/ Len(b) < 2 + b[2] THEN [err |-> "SHORT_FRAME", PrimitivePackets |-> acc]
    ELSE DecodePrimitivePackets(
            SubSeq(b, 3 + b[2], Len(b)),
            [t \in DOMAIN acc \cup {b[1]} |-> IF t = b[1] THEN SubSeq(b, 3, 2 + b[2]) ELSE acc[t]])

NoPackets == [t \in {} |-> <<>>]

DecodeToNodePacket(data) == DecodePrimitivePackets(data.Payload, NoPackets)

\* the value of a block that is present, else the field as it is
BlockOr(node, tag, old) ==
    IF tag \in DOMAIN node.PrimitivePackets THEN node.PrimitivePackets[tag] ELSE old

\* the name is read from the block of the appID
decodeNameFromAppID(data, f) ==
    LET node == DecodeToNodePacket(data)
        tagBlock == BlockOr(node, tagAIRegisterFunctionTag, UInt32Bytes(f.Tag))
    IN  IF node.err # "nil" THEN [err |-> node.err, f |-> f]
        ELSE IF Len(tagBlock) # 4 THEN [err |-> "ErrToUInt32", f |-> f]
        ELSE [err |-> "nil",
              f |-> AIRegisterFunctionFrame(
                        BlockOr(node, tagAIRegisterFunctionAppID, f.AppID),
                        BlockOr(node, tagAIRegisterFunctionAppID, f.Name),
                        ToUInt32(tagBlock),
                        BlockOr(node, tagAIRegisterFunctionDefinition, f.Definition))]

\* lines 713-749: every block that is present sets its field of f; a block
\* that is absent leaves the field as it is
decodeAIRegisterFunctionFrame(data, f) ==
    LET node == DecodeToNodePacket(data)
        tagBlock == BlockOr(node, tagAIRegisterFunctionTag, UInt32Bytes(f.Tag))
    IN  IF node.err # "nil" THEN [err |-> node.err, f |-> f]
        ELSE IF Len(tagBlock) # 4 THEN [err |-> "ErrToUInt32", f |-> f]
        ELSE [err |-> "nil",
              f |-> AIRegisterFunctionFrame(
                        BlockOr(node, tagAIRegisterFunctionAppID, f.AppID),
                        BlockOr(node, tagAIRegisterFunctionName, f.Name),
                        ToUInt32(tagBlock),
                        BlockOr(node, tagAIRegisterFunctionDefinition, f.Definition))]

\* the frames that are encoded: empty and non-empty strings, tags of one, two
\* and four significant bytes, an empty and a JSON definition
Frames ==
    { AIRegisterFunctionFrame(a, n, t, d) :
        a \in { <<>>, <<97>> }, n \in { <<>>, <<102, 110>> },
        t \in { 0, 1, 256, 2^24 + 255 }, d \in { <<>>, <<123, 125>> } }

\* the orders in which a peer may add the four primitive packets
FieldOrders ==
    { o \in [1..4 -> 1..4] : \A x, y \in 1..4 : x # y => o[x] # o[y] }

CodecEncode ==
    /\ cpc = "encode"
    /\ wire' = Some(encodeAIRegisterFunctionFrame(frame))
    /\ fieldOrder' = <<1, 2, 3, 4>>
    /\ cpc' = "wire"
    /\ UNCHANGED <<serviceVars, registryVars, unitVars, frame, decoded>>

\* the node arrives with its primitive packets in another order
CodecReorder ==
    /\ cpc = "wire"
    /\ \E o \in FieldOrders \ {fieldOrder} :
          fieldOrder' = o /\ wire' = Some(NodePacket(frame, o))
    /\ UNCHANGED <<serviceVars, registryVars, unitVars, cpc, frame, decoded>>

\* the node is decoded into a new frame
CodecDecode ==
    /\ cpc = "wire"
    /\ decoded' = Some(decodeAIRegisterFunctionFrame(wire[1], ZeroFrame))
    /\ cpc' = "decoded"
    /\ UNCHANGED <<serviceVars, registryVars, unitVars, frame, fieldOrder, wire>>

CodecInit ==
    /\ ServiceOff /\ RegistryIdle /\ UnitsIdle
    /\ cpc = "encode" /\ frame \in Frames
    /\ fieldOrder = <<>> /\ wire = Nil /\ decoded = Nil

CodecNext == CodecEncode \/ CodecReorder \/ CodecDecode

SpecCodec == CodecInit /\ [][CodecNext]_vars

\* the orders of a node in which a peer left one or more of the four
\* primitive packets out
PartialOrders ==
    { o \in UNION { [1..n -> 1..4] : n \in 0..3 } :
        \A x, y \in DOMAIN o : x # y => o[x] # o[y] }

\* the node arrives without some of its primitive packets
CodecPeerOmits ==
    /\ cpc = "wire"
    /\ Len(fieldOrder) = 4
    /\ \E o \in PartialOrders :
          fieldOrder' = o /\ wire' = Some(NodePacket(frame, o))
    /\ UNCHANGED <<serviceVars, registryVars, unitVars, cpc, frame, decoded>>

\* a reordering keeps the packets the node has
CodecReorderPartial ==
    /\ Len(fieldOrder) = 4
    /\ CodecReorder

CodecPeerNext == CodecEncode \/ CodecReorderPartial \/ CodecPeerOmits \/ CodecDecode

SpecCodecPeer == CodecInit /\ [][CodecPeerNext]_vars

\* ------------------------------------------------- Service.OpSystemPrompt
\* the messages of a request: two system messages that differ, a user and an
\* assistant message
PromptMessages ==
    { Msg("system", <<"s1">>, "", <<>>), Msg("system", <<"s2">>, "", <<>>),
      Msg("user", <<"u">>, "", <<>>), Msg("assistant", <<"a">>, "", <<>>) }

\* the longest message list of a request
MaxMessages == 3

PromptRequests ==
    { Request(m, <<>>, FALSE) : m \in UNION { [1..n -> PromptMessages] : n \in 0..MaxMessages } }

\* SystemPromptOpDisabled, SystemPromptOpOverwrite, SystemPromptOpPrefix
SystemPromptOps == {"Disabled", "Overwrite", "Prefix"}

\* the prompt of the slot: empty or not
SystemPrompts == { <<>>, <<"p">> }

PromptInit ==
    /\ ServiceOff /\ RegistryIdle /\ CodecIdle /\ CacheIdle /\ MetaIdle /\ ServeIdle
    /\ ReassemblyIdle /\ AzureIdle
    /\ opPc = "call" /\ opReq \in PromptRequests
    /\ opPrompt \in SystemPrompts /\ opOp \in SystemPromptOps
    /\ opOut = Nil

\* lines 506-550
CallOpSystemPrompt ==
    /\ opPc = "call"
    /\ opOut' = Some(OpSystemPrompt(opReq, opPrompt, opOp))
    /\ opPc' = "returned"
    /\ UNCHANGED <<serviceVars, registryVars, codecVars, cacheVars, metaVars, serveVars, reVars, azVars,
                   opReq, opPrompt, opOp>>

PromptNext == CallOpSystemPrompt

SpecPrompt == PromptInit /\ [][PromptNext]_vars

\* ----------------------------------------------------- the caller cache
\* initOption, lines 70-72: a size of 0 becomes 1
initCallerCacheSize(size) == IF size = 0 THEN 1 ELSE size

\* the sizes the options are given
CallerCacheSizes == {0, 2}

\* an entry of the LRU: key, value, and whether its TTL has run out
CacheEntry(key, caller, expired) == [key |-> key, caller |-> caller, expired |-> expired]

\* the positions of the entries with this key (none or one)
EntriesOf(key) == { k \in 1..Len(callers) : callers[k].key = key }

\* a sequence without its element at position k
RemoveAt(seq, k) == SubSeq(seq, 1, k - 1) \o SubSeq(seq, k + 1, Len(seq))

\* the hook forgets to close
onEvictNoClose(cc, caller) == cc

\* lines 87-89: the eviction hook closes the Caller
onEvict(cc, caller) == [cc EXCEPT ![caller] = @ + 1]

\* what every step on the cache leaves alone
cacheOthers ==
    <<serviceVars, registryVars, codecVars, promptVars, metaVars, serveVars, reVars, azVars, cacheSize,
      cacheTTL>>

\* line 472: callers.Get(credential); a hit returns the cached Caller (473-475)
CallersGet(p) ==
    /\ lpc[p] = "idle"
    /\ \E credential \in Credentials :
          LET hit == { k \in EntriesOf(credential) : ~callers[k].expired } IN
          IF hit # {}
          THEN LET k == CHOOSE x \in hit : TRUE IN
               /\ callers' = <<callers[k]>> \o RemoveAt(callers, k)
               /\ lcaller' = [lcaller EXCEPT ![p] = callers[k].caller]
               /\ UNCHANGED <<lpc, lkey>>
          ELSE /\ lpc' = [lpc EXCEPT ![p] = "create"]
               /\ lkey' = [lkey EXCEPT ![p] = credential]
               /\ lcaller' = [lcaller EXCEPT ![p] = 0]
               /\ UNCHANGED callers
    /\ UNCHANGED <<cacheOthers, made, closeCount, leftBy, factoryCalls>>

\* lines 476-487: the metadata exchange or the factory fails, or the factory
\* returns a new Caller
CreateCaller(p) ==
    /\ lpc[p] = "create"
    /\ \/ /\ lpc' = [lpc EXCEPT ![p] = "idle"]
          /\ lkey' = [lkey EXCEPT ![p] = ""]
          /\ UNCHANGED <<made, lcaller, factoryCalls>>
       \/ /\ made < MaxCallers
          /\ made' = made + 1
          /\ lcaller' = [lcaller EXCEPT ![p] = made + 1]
          /\ factoryCalls' = [factoryCalls EXCEPT ![lkey[p]] = @ + 1]
          /\ lpc' = [lpc EXCEPT ![p] = "add"]
          /\ UNCHANGED lkey
    /\ UNCHANGED <<cacheOthers, callers, closeCount, leftBy>>

\* line 489: callers.Add(credential, caller). The LRU puts the value into the
\* entry the key has, or adds an entry at the front and, above its size,
\* evicts the least recently used entry through the hook
CallersAdd(p) ==
    /\ lpc[p] = "add"
    /\ LET new == CacheEntry(lkey[p], lcaller[p], FALSE) IN
       IF EntriesOf(lkey[p]) # {}
       THEN LET k == CHOOSE x \in EntriesOf(lkey[p]) : TRUE IN
            /\ callers' = <<new>> \o RemoveAt(callers, k)
            /\ leftBy' = [leftBy EXCEPT ![callers[k].caller] = "replaced"]
            /\ UNCHANGED closeCount
       ELSE LET added == <<new>> \o callers IN
            IF cacheSize > 0 /\ Len(added) > cacheSize
            THEN /\ callers' = SubSeq(added, 1, Len(added) - 1)
                 /\ closeCount' = onEvict(closeCount, added[Len(added)].caller)
                 /\ leftBy' = [leftBy EXCEPT ![added[Len(added)].caller] = "size"]
            ELSE /\ callers' = added
                 /\ UNCHANGED <<closeCount, leftBy>>
    /\ lpc' = [lpc EXCEPT ![p] = "idle"]
    /\ lkey' = [lkey EXCEPT ![p] = ""]
    /\ UNCHANGED <<cacheOthers, made, lcaller, factoryCalls>>

\* the TTL of an entry runs out: Get no longer returns it
TTLRunsOut ==
    /\ cacheTTL
    /\ \E k \in 1..Len(callers) :
          /\ ~callers[k].expired
          /\ callers' = [callers EXCEPT ![k].expired = TRUE]
    /\ UNCHANGED <<cacheOthers, made, closeCount, leftBy, lpc, lkey, lcaller, factoryCalls>>

\* the LRU removes an entry whose TTL has run out, through the hook
DeleteExpired ==
    /\ \E k \in 1..Len(callers) :
          /\ callers[k].expired
          /\ callers' = RemoveAt(callers, k)
          /\ closeCount' = onEvict(closeCount, callers[k].caller)
          /\ leftBy' = [leftBy EXCEPT ![callers[k].caller] = "ttl"]
    /\ UNCHANGED <<cacheOthers, made, lpc, lkey, lcaller, factoryCalls>>

\* NewServiceWithCallerFunc, lines 86-102: an empty cache of the given size and TTL
CacheInit ==
    /\ ServiceOff /\ RegistryIdle /\ CodecIdle /\ PromptIdle /\ MetaIdle /\ ServeIdle
    /\ ReassemblyIdle /\ AzureIdle
    /\ \E size \in CallerCacheSizes : cacheSize = initCallerCacheSize(size)
    /\ cacheTTL \in BOOLEAN
    /\ callers = <<>> /\ made = 0
    /\ closeCount = [c \in 1..MaxCallers |-> 0]
    /\ leftBy = [c \in 1..MaxCallers |-> ""]
    /\ lpc = [p \in Loaders |-> "idle"]
    /\ lkey = [p \in Loaders |-> ""]
    /\ lcaller = [p \in Loaders |-> 0]
    /\ factoryCalls = [k \in Credentials |-> 0]

CacheNext ==
    \/ \E p \in Loaders : CallersGet(p)
    \/ \E p \in Loaders : CreateCaller(p)
    \/ \E p \in Loaders : CallersAdd(p)
    \/ TTLRunsOut
    \/ DeleteExpired

SpecCache == CacheInit /\ [][CacheNext]_vars

\* ------------------------------------------------ the Caller's metadata
\* the metadata a MetadataExchanger gives a Caller
CallerMetadata ==
    { [k \in MetadataKeys |-> IF k = "appID" THEN a ELSE ""] : a \in {"a", "b"} }

\* what a provider may store in the metadata it is given
MetadataValues == {"", "a", "x"}

\* md.Clone(): a new map with the entries of the source
MetadataClone(heap, src, dst) == [heap EXCEPT ![dst] = heap[src]]

\* the handler works on the Caller's map itself
WorkingCopyShared(callerMd, fresh) == callerMd

\* lines 120 and 221, md := caller.Metadata().Clone(): the handler holds the
\* new map
WorkingCopy(callerMd, fresh) == fresh

metaOthers ==
    <<serviceVars, registryVars, codecVars, promptVars, cacheVars, serveVars, reVars, azVars, mdOriginal>>

\* lines 116-120 and 216-221: a request starts on the Caller and takes its
\* working copy
MdPrepare ==
    /\ mdPc = "idle" /\ mdRequests < MaxRequests
    /\ mdApi' \in {"chat", "invoke"}
    /\ mdRequests' = mdRequests + 1
    /\ mdSeen' = mdHeap[0]
    /\ md' = WorkingCopy(0, mdRequests + 1)
    /\ mdHeap' = MetadataClone(mdHeap, 0, mdRequests + 1)
    /\ mdPc' = "list"
    /\ UNCHANGED metaOthers

\* lines 122-125 and 224-227: ai.ListToolCalls(md) reads the tools; its error
\* ends the request
MdListToolCalls ==
    /\ mdPc = "list"
    /\ mdPc' \in {"first", "idle"}
    /\ UNCHANGED <<metaOthers, mdApi, mdHeap, md, mdRequests, mdSeen>>

\* the provider is handed md (lines 140, 191, 250, 345, 409, 442) and may
\* store into it; after the first call the request ends or goes on to the
\* second call
MdProviderCall ==
    /\ mdPc \in {"first", "second"}
    /\ \/ UNCHANGED mdHeap
       \/ \E k \in MetadataKeys, v \in MetadataValues :
             mdHeap' = [mdHeap EXCEPT ![md][k] = v]
    /\ mdPc' \in (IF mdPc = "first" THEN {"second", "idle"} ELSE {"idle"})
    /\ UNCHANGED <<metaOthers, mdApi, md, mdRequests, mdSeen>>

MetaInit ==
    /\ ServiceOff /\ RegistryIdle /\ CodecIdle /\ PromptIdle /\ CacheIdle /\ ServeIdle
    /\ ReassemblyIdle /\ AzureIdle
    /\ mdPc = "idle" /\ mdApi = "chat"
    /\ mdOriginal \in CallerMetadata
    /\ mdHeap = [r \in 0..MaxRequests |-> IF r = 0 THEN mdOriginal ELSE NoMetadata]
    /\ md = 0 /\ mdRequests = 0 /\ mdSeen = NoMetadata

MetaNext == MdPrepare \/ MdListToolCalls \/ MdProviderCall

SpecMetadata == MetaInit /\ [][MetaNext]_vars

\* ------------------------------------------------ serveCmd.Run (cli/serve.go)
\* the bridge section of the config file: absent, malformed, or a config
BridgeConfs == {"absent", "malformed", "config"}

\* the provider names a bridge config may list
ProviderNames == {"azopenai", "openai", "other"}

\* conf.Auth: no type, a type without token, a type with token
AuthConfs == {"none", "type", "token"}

ServeInputs ==
    { ServeInput(flag, fileErr, auth, bridge, providers, zipperErr) :
        flag \in {"", "zipper.yaml"}, fileErr \in BOOLEAN, auth \in AuthConfs,
        bridge \in BridgeConfs, providers \in SUBSET ProviderNames, zipperErr \in BOOLEAN }

\* ai.ParseConfig: no bridge section is ErrConfigNotFound, a section that does
\* not parse is a format error, both without a config
ParseConfig(in) ==
    IF in.bridge = "absent" THEN [config |-> Nil, err |-> "ErrConfigNotFound"]
    ELSE IF in.bridge = "malformed" THEN [config |-> Nil, err |-> "ErrConfigFormatError"]
    ELSE [config |-> Some(in.providers), err |-> "nil"]

\* every parse error ends the command
ParseErrorAlwaysEnds(err) == err # "nil"

\* lines 74-81: a parse error other than ErrConfigNotFound ends the command
ParseErrorEnds(err) == err # "nil" /\ err # "ErrConfigNotFound"

\* lines 122-144: azopenai and openai are registered, other names are not
registerAIProvider(providers) == providers \cap {"azopenai", "openai"}

serveOthers ==
    <<serviceVars, registryVars, codecVars, promptVars, cacheVars, metaVars, reVars, azVars, serveIn>>

\* lines 41-52: the flag is checked and the config file is parsed
ServeParseConfigFile ==
    /\ servePc = "start"
    /\ servePc' = IF serveIn.config = "" \/ serveIn.fileErr THEN "returned" ELSE "auth"
    /\ UNCHANGED <<serveOthers, options, aiConfig, zipper, registered, apiServer, listening>>

\* lines 53-69: the tracer provider option, and the auth option when the
\* config has a type and a token
ServeOptions ==
    /\ servePc = "auth"
    /\ options' = {"TracerProvider"} \cup (IF serveIn.auth = "token" THEN {"Auth"} ELSE {})
    /\ servePc' = "bridge"
    /\ UNCHANGED <<serveOthers, aiConfig, zipper, registered, apiServer, listening>>

\* lines 72-85: the bridge config is parsed; with a config the AI connection
\* middleware is added to the options
ServeParseBridge ==
    /\ servePc = "bridge"
    /\ LET r == ParseConfig(serveIn) IN
       /\ aiConfig' = r.config
       /\ IF ParseErrorEnds(r.err)
          THEN servePc' = "returned" /\ UNCHANGED options
          ELSE /\ servePc' = "zipper"
               /\ options' = options \cup (IF r.config # Nil THEN {"ConnMiddleware"} ELSE {})
    /\ UNCHANGED <<serveOthers, zipper, registered, apiServer, listening>>

\* lines 87-97: the zipper is created, or the command ends with its error
ServeNewZipper ==
    /\ servePc = "zipper"
    /\ zipper' = ~serveIn.zipperErr
    /\ servePc' = IF serveIn.zipperErr THEN "returned" ELSE "ai"
    /\ UNCHANGED <<serveOthers, options, aiConfig, registered, apiServer, listening>>

\* lines 100-111: with a config the providers are registered and the API
\* server is started in its goroutine
ServeAIServer ==
    /\ servePc = "ai"
    /\ IF aiConfig # Nil
       THEN registered' = registerAIProvider(aiConfig[1]) /\ apiServer' = TRUE
       ELSE UNCHANGED <<registered, apiServer>>
    /\ servePc' = "listen"
    /\ UNCHANGED <<serveOthers, options, aiConfig, zipper, listening>>

\* lines 114-118: the zipper serves
ServeListen ==
    /\ servePc = "listen"
    /\ listening' = TRUE
    /\ servePc' = "returned"
    /\ UNCHANGED <<serveOthers, options, aiConfig, zipper, registered, apiServer>>

ServeInit ==
    /\ ServiceOff /\ RegistryIdle /\ CodecIdle /\ PromptIdle /\ CacheIdle /\ MetaIdle
    /\ ReassemblyIdle /\ AzureIdle
    /\ servePc = "start" /\ serveIn \in ServeInputs
    /\ options = {} /\ aiConfig = Nil /\ zipper = FALSE
    /\ registered = {} /\ apiServer = FALSE /\ listening = FALSE

ServeNext ==
    \/ ServeParseConfigFile \/ ServeOptions \/ ServeParseBridge
    \/ ServeNewZipper \/ ServeAIServer \/ ServeListen

SpecServe == ServeInit /\ [][ServeNext]_vars

\* --------------------------------- reassembly of streamed tool calls
\* the longest run of tool-call deltas of one stream
MaxDeltas == 3

\* the deltas a provider sends: an index, an id and type or neither, a name
\* or an argument fragment; and one delta without index
StreamDeltas ==
    { ToolCall(ix, it[1], it[2], na[1], na[2]) :
        ix \in {0, 1},
        it \in { <<"", "">>, <<"c1", "function">>, <<"c2", "function">> },
        na \in { <<"f", <<>>>>, <<"g", <<"x">>>>, <<"", <<"x">>>>, <<"", <<"y">>>> } }
    \cup { Deltas.noidx }

ReassemblyInit ==
    /\ ServiceOff /\ RegistryIdle /\ CodecIdle
    /\ PromptIdle /\ CacheIdle /\ MetaIdle /\ ServeIdle /\ AzureIdle
    /\ rePc = "stream"
    /\ reDeltas \in UNION { [1..n -> StreamDeltas] : n \in 1..MaxDeltas }
    /\ reOut = [panic |-> FALSE, calls |-> <<>>]

\* lines 299-318 for every delta in arrival order, then line 335:
\* toolCalls = mapToSliceTools(toolCallsMap)
Reassemble ==
    /\ rePc = "stream"
    /\ reOut' = IF DerefsNilIndex(reDeltas) THEN [panic |-> TRUE, calls |-> <<>>]
                ELSE LET m == ApplyDeltas(EmptyMap, reDeltas) IN
                     IF MapSliceOutOfRange(m) THEN [panic |-> TRUE, calls |-> <<>>]
                     ELSE [panic |-> FALSE, calls |-> mapToSliceTools(m)]
    /\ rePc' = "done"
    /\ UNCHANGED <<serviceVars, registryVars, codecVars, promptVars, cacheVars, metaVars,
                   serveVars, azVars, reDeltas>>

ReassemblyNext == Reassemble

SpecReassembly == ReassemblyInit /\ [][ReassemblyNext]_vars

\* -------------------------- azopenai GetChatCompletions, one call on its own
\* the most tool calls in one upstream response
MaxAzCalls == 2

\* a tool call of the upstream response
AzCall(type, name, arguments) == [Type |-> type, Function |-> [Name |-> name, Arguments |-> arguments]]

\* the calls a model answers with: registered and unregistered names, and a
\* type that is not "function"
AzCalls ==
    { AzCall("function", "f", <<"1">>), AzCall("function", "g", <<"2">>),
      AzCall("function", "h", <<>>), AzCall("other", "f", <<>>) }

\* the upstream request fails (client.Do, status >= 400, a body that is not
\* JSON), or answers with no choice, or with one choice and its tool calls
AzUpstreams ==
    { AzUpstreamResult(e, 0, <<>>) : e \in {"ErrDo", "ErrStatus", "ErrUnmarshal"} }
    \cup { AzUpstreamResult("ok", 0, <<>>) }
    \cup { AzUpstreamResult("ok", 1, cs) : cs \in UNION { [1..n -> AzCalls] : n \in 0..MaxAzCalls } }

\* the inner maps RegisterFunction can build for one appID
AzRegistered ==
    UNION { [T -> { RegistryToolCall(d) : d \in FunctionDefinitions }] : T \in SUBSET Tags }

\* ai.ToolCall.Equal: same type and same function name
ToolCallEqual(tool, call) == tool.Type = call.Type /\ tool.Function.Name = call.Function.Name

\* lines 161-170: the functions of the calls that equal the tool of a tag,
\* under that tag, in the order of the calls
MatchedFunctions(mapTools, calls) ==
    LET hits(tag) == SelectSeq(calls, LAMBDA call : ToolCallEqual(mapTools[tag], call))
    IN  [tag \in { t \in DOMAIN mapTools : hits(t) # <<>> } |->
            [k \in 1..Len(hits(tag)) |-> hits(tag)[k].Function]]

\* lines 92-176 without a concurrent registry write
AzGetChatCompletions(mapTools, up) ==
    IF DOMAIN mapTools = {} THEN AzResult("ErrNoFunctionCall", NoFunctions, FALSE)
    ELSE IF up.end # "ok" THEN AzResult(up.end, NoFunctions, FALSE)
    ELSE IF up.nchoices = 0 THEN AzResult("nil", NoFunctions, TRUE)
    ELSE IF Len(up.calls) = 0 THEN AzResult("ErrNoFunctionCall", NoFunctions, FALSE)
    ELSE LET functions == MatchedFunctions(mapTools, up.calls) IN
         IF DOMAIN functions = {} THEN AzResult("ErrNoFunctionCall", NoFunctions, FALSE)
         ELSE AzResult("nil", functions, FALSE)

AzureInit ==
    /\ ServiceOff /\ RegistryIdle /\ CodecIdle
    /\ PromptIdle /\ CacheIdle /\ MetaIdle /\ ServeIdle /\ ReassemblyIdle
    /\ azPc = "call" /\ azTools \in AzRegistered /\ azUpstream \in AzUpstreams
    /\ azOut = AzResult("nil", NoFunctions, FALSE)

AzureCall ==
    /\ azPc = "call"
    /\ azOut' = AzGetChatCompletions(azTools, azUpstream)
    /\ azPc' = "returned"
    /\ UNCHANGED <<serviceVars, registryVars, codecVars, promptVars, cacheVars, metaVars,
                   serveVars, reVars, azTools, azUpstream>>

AzureNext == AzureCall

SpecAzure == AzureInit /\ [][AzureNext]_vars

\* ================================================================ claims
\* the role="tool" messages of a request, in order
ToolMsgs(r) == SelectSeq(r.Messages, LAMBDA m : m.role = "tool")

\* the follow-up request of GetChatCompletions has been handed to the provider
SecondCallMade == api = "chat" /\ Len(providerReqs) = 2

\* caller.Call has returned
CallHasReturned == callCount > 0 /\ pc # "calling"

Occurrences(seq, P(_)) == Cardinality({ k \in 1..Len(seq) : P(seq[k]) })

\* C1: in every request of GetChatCompletions that reaches the second provider
\* call, the follow-up request carries as many role="tool" messages as the
\* first call emitted tool calls.
C1_ToolMessagesEqualToolCalls ==
    SecondCallMade => Len(ToolMsgs(providerReqs[2])) = Len(toolCalls)

\* C2: when Call returns its results, every tool call handed to it has exactly
\* one result: for every toolCallID there are as many results as handed calls,
\* whatever frames (replies, duplicates, unexpected ones) arrived and whether
\* the deadline expired.
C2_ExactlyOneResultPerCall ==
    (CallHasReturned /\ callErr = "nil") =>
        /\ Len(callResult) = Len(fnCalls)
        /\ \A id \in IDsOf(fnCalls) \cup { callResult[k].toolCallID : k \in 1..Len(callResult) } :
              Occurrences(callResult, LAMBDA r : r.toolCallID = id)
                = Occurrences(fnCalls, LAMBDA c : c.id = id)

\* Call returned one worker reply and one synthetic result in the same dispatch
C2_Witness ==
    /\ pc = "called" /\ callErr = "nil" /\ Len(fnCalls) = 2
    /\ fnCalls[1].id # fnCalls[2].id
    /\ callResult[1].timedOut /\ ~callResult[2].timedOut
    /\ callResult[2].content = <<"r2">>

\* C3: results are ordered by originating tool call, not by arrival:
\* results[i].toolCallID = toolCalls[i].id for all i, and the tool messages of
\* the follow-up request appear in that same order.
C3_ResultsInCallOrder ==
    /\ (CallHasReturned /\ callErr = "nil") =>
          /\ Len(callResult) = Len(fnCalls)
          /\ \A k \in 1..Len(callResult) : callResult[k].toolCallID = fnCalls[k].id
    /\ SecondCallMade =>
          /\ Len(ToolMsgs(providerReqs[2])) = Len(fnCalls)
          /\ \A k \in 1..Len(fnCalls) : ToolMsgs(providerReqs[2])[k].tool_call_id = fnCalls[k].id

\* the second call was made after the workers replied in the reverse order
C3_Witness ==
    /\ SecondCallMade
    /\ Len(fnCalls) = 2 /\ fnCalls[1].id = "c1" /\ fnCalls[2].id = "c2"
    /\ arrival = <<"c2", "c1">>

\* C4: a dispatch whose worker never replies can always be ended by the
\* deadline; Call then returns without error, the unanswered call has a
\* synthetic result with empty content, the request does not end without the
\* second provider call, and the follow-up request carries one tool message
\* (empty content) for that call.
C4_TimeoutYieldsSyntheticResult ==
    /\ pc = "calling" => ENABLED CallTimeout
    /\ \A k \in 1..Len(callResult) :
          callResult[k].timedOut =>
            /\ callErr = "nil"
            /\ callResult[k] = ToolResult(fnCalls[k].id, <<>>, TRUE)
            /\ (api = "chat" /\ pc = "done" /\ outcome = "nil") => SecondCallMade
            /\ SecondCallMade =>
                  /\ Len(ToolMsgs(providerReqs[2])) = Len(callResult)
                  /\ ToolMsgs(providerReqs[2])[k] = Msg("tool", <<>>, fnCalls[k].id, <<>>)

\* no worker replied at all, the deadline expired, the second call was made
C4_Witness ==
    /\ SecondCallMade /\ arrival = <<>>
    /\ Len(callResult) = 2 /\ callResult[1].timedOut /\ callResult[2].timedOut

\* C5: when caller.Call returns an error, GetChatCompletions and GetInvoke
\* return that error: no follow-up provider call is issued and no tool-result
\* event is written.
C5_CallErrorEndsRequest ==
    callErr # "nil" =>
        /\ Len(providerReqs) = 1
        /\ \A k \in 1..Len(written) : written[k].kind # "results"
        /\ pc \in {"called", "done"}
        /\ pc = "done" => (outcome = callErr /\ ret = Nil)

\* the request context was cancelled during the pending wait of a chat request
C5_Witness ==
    api = "chat" /\ pc = "done" /\ callErr = "CANCELLED" /\ outcome = "CANCELLED"

\* the chunk events written so far, in order
ChunkEvents(w) == SelectSeq(w, LAMBDA e : e.kind = "chunk")

AsChunkEvents(cs) == [k \in 1..Len(cs) |-> Event("chunk", cs[k])]

ClientSentTools == api = "chat" /\ clientTools # <<>>

\* C6: a chat request that carries its own tools is passed through: the
\* provider gets the client's tools and no registry tool, caller.Call is never
\* invoked, no tool-call or tool-result event is written, the provider is
\* called at most once even when it answers with tool calls, a non-stream
\* answer is written as received, and in stream mode the chunks written are
\* the upstream chunks, unmodified and in order, followed by [DONE] once the
\* stream has ended.
C6_ClientToolsPassThrough ==
    ClientSentTools =>
        /\ callCount = 0
        /\ Len(providerReqs) <= 1
        /\ \A k \in 1..Len(providerReqs) : providerReqs[k].Tools = clientTools
        /\ \A k \in 1..Len(written) : written[k].kind \in {"chunk", "done", "json"}
        /\ (pc = "done" /\ firstResp # Nil /\ firstResp[1].nchoices > 0) =>
              /\ outcome = "nil"
              /\ Len(written) = 1 /\ written[1].kind = "json" /\ written[1].body = firstResp[1]
        /\ req.Stream =>
              /\ ChunkEvents(written) = AsChunkEvents(upstream)
              /\ pc # "done" => written = AsChunkEvents(upstream)
              /\ (pc = "done" /\ providerErr = "nil" /\ upstream # <<>>) =>
                    /\ outcome = "nil"
                    /\ Len(written) = Len(upstream) + 1
                    /\ written[Len(written)].kind = "done"

\* a client-tools stream that carried content and tool-call chunks has ended
C6_Witness ==
    /\ ClientSentTools /\ req.Stream /\ registry # <<>>
    /\ pc = "done" /\ outcome = "nil" /\ Len(upstream) = 2
    /\ \E k \in 1..2 : IsToolCallChunk(upstream[k])
    /\ \E k \in 1..2 : upstream[k].content # <<>>
    /\ written[3].kind = "done"

\* C7: with no registered tool and no client tool, GetChatCompletions never
\* invokes caller.Call and passes the provider's answer through, whatever the
\* provider returns.
C7_NoToolsNoDispatch ==
    (api = "chat" /\ registry = <<>> /\ clientTools = <<>>) =>
        /\ callCount = 0
        /\ Len(providerReqs) <= 1

\* the first provider call has been answered completely
FirstCallAnswered ==
    /\ pc \notin {"prepare", "first", "inv_first", "recv1"}
    /\ outcome # "ErrListToolCalls"
    /\ providerReqs # <<>>
    /\ ~(Len(providerReqs) = 1 /\ providerErr # "nil")

\* the chunks of a stream without prompt-filter results
WithoutPromptFilter(cs) == SelectSeq(cs, LAMBDA c : ~c.pf)

\* C8: when the first provider call produced no tool calls (a non-stream
\* response whose finish_reason is not tool_calls, a stream without any
\* tool-call delta), the request has ended with caller.Call never invoked and
\* the provider called once, and the first response was delivered: the JSON
\* response written as received, the converted response returned by GetInvoke,
\* the stream's chunks written and, once one was written, followed by [DONE].
C8_NoToolCallsEndsRequest ==
    (FirstCallAnswered /\ ~firstHadToolCalls) =>
        /\ pc = "done"
        /\ callCount = 0
        /\ Len(providerReqs) = 1
        /\ \A k \in 1..Len(written) : written[k].kind \in {"chunk", "done", "json"}
        /\ (api = "chat" /\ ~req.Stream /\ firstResp[1].nchoices > 0) =>
              /\ outcome = "nil"
              /\ Len(written) = 1 /\ written[1].kind = "json" /\ written[1].body = firstResp[1]
        /\ api = "invoke" =>
              /\ outcome \in {"nil", "ErrConvert"}
              /\ outcome = "nil" => ret = Some(ConvertToInvokeResponse(firstResp[1]))
        /\ (api = "chat" /\ req.Stream) =>
              /\ ChunkEvents(written) =
                    AsChunkEvents(IF clientTools # <<>> THEN upstream ELSE WithoutPromptFilter(upstream))
              /\ ChunkEvents(written) # <<>> =>
                    /\ outcome = "nil"
                    /\ Len(written) = Len(ChunkEvents(written)) + 1
                    /\ written[Len(written)].kind = "done"

\* a stream of two content chunks ended with registered tools at hand
C8_Witness ==
    /\ FirstCallAnswered /\ ~firstHadToolCalls /\ outcome = "nil"
    /\ registry # <<>> /\ clientTools = <<>>
    /\ api = "chat" /\ req.Stream /\ Len(upstream) = 2 /\ Len(written) = 3

\* C9: the provider is invoked at most twice within one request, and once an
\* invocation or a Recv has returned a non-EOF error the request has returned
\* that error; from then on no provider call and no tool dispatch happens.
C9_ProviderNeverRetried ==
    /\ [](Len(providerReqs) <= 2)
    /\ [](providerErr # "nil" => (pc = "done" /\ outcome = providerErr))
    /\ [][providerErr # "nil" => UNCHANGED <<providerReqs, callCount, fnCalls, written>>]_vars

\* the follow-up call failed after a dispatch
C9_Witness ==
    providerErr # "nil" /\ Len(providerReqs) = 2 /\ callCount = 1 /\ pc = "done"

FirstStreamWithoutClientTools ==
    /\ api = "chat" /\ req.Stream /\ clientTools = <<>>
    /\ \/ pc = "recv1"
       \/ pc = "done" /\ Len(providerReqs) = 1 /\ callCount = 0

\* C10 as claimed: during a streamed first call without client tools the
\* chunks written are, in order, exactly the upstream chunks that are not
\* tool-call chunks, whether they arrive before or after the first tool-call
\* chunk.
C10_AllContentChunksForwarded ==
    FirstStreamWithoutClientTools =>
        ChunkEvents(written) =
            AsChunkEvents(SelectSeq(upstream, LAMBDA c : ~c.pf /\ ~(c.nchoices > 0 /\ c.deltas # <<>>)))

\* the chunks ahead of the first chunk that carries tool-call deltas
RECURSIVE BeforeFirstToolCall(_)
BeforeFirstToolCall(cs) ==
    IF cs = <<>> \/ (~Head(cs).pf /\ Head(cs).nchoices > 0 /\ Head(cs).deltas # <<>>)
    THEN <<>>
    ELSE <<Head(cs)>> \o BeforeFirstToolCall(Tail(cs))

\* C10 as amended: during a streamed first call without client tools the
\* chunks written are, in order, exactly the upstream chunks without
\* prompt-filter results that arrive before the first tool-call chunk; no
\* tool-call chunk and no chunk after the first tool-call chunk is written.
C10_ContentBeforeToolCallForwarded ==
    FirstStreamWithoutClientTools =>
        /\ ChunkEvents(written) = AsChunkEvents(WithoutPromptFilter(BeforeFirstToolCall(upstream)))
        /\ \A k \in 1..Len(written) : written[k].kind \in {"chunk", "done"}

\* content arrived before and after the first tool-call chunk
C10_Witness ==
    /\ FirstStreamWithoutClientTools /\ Len(upstream) = 3
    /\ upstream[1].content # <<>> /\ upstream[1].deltas = <<>>
    /\ upstream[2].deltas # <<>>
    /\ upstream[3].content # <<>> /\ upstream[3].deltas = <<>>
    /\ Len(ChunkEvents(written)) = 1

\* the positions of the events of one kind
PositionsOf(w, kind) == { k \in 1..Len(w) : w[k].kind = kind }

StreamingChat == api = "chat" /\ req.Stream

\* C11: a streaming request that has returned nil has written the [DONE]
\* terminator exactly once, as its last event; the terminator is written by
\* no request that is still running or that returned an error.
C11_DoneOnceAndLast ==
    StreamingChat =>
        /\ (pc = "done" /\ outcome = "nil") => PositionsOf(written, "done") = {Len(written)}
        /\ PositionsOf(written, "done") \subseteq {Len(written)}
        /\ PositionsOf(written, "done") # {} => (pc = "done" /\ outcome = "nil")

\* [DONE] ended a second-call stream of two chunks
C11_Witness ==
    /\ StreamingChat /\ pc = "done" /\ outcome = "nil"
    /\ Len(providerReqs) = 2 /\ Len(upstream) = 2
    /\ PositionsOf(written, "done") = {Len(written)}

\* the events written from the tool-call list on
FromToolCalls(w) ==
    IF PositionsOf(w, "toolcalls") = {} THEN <<>>
    ELSE LET first == CHOOSE k \in PositionsOf(w, "toolcalls") :
                        \A m \in PositionsOf(w, "toolcalls") : k <= m
         IN  SubSeq(w, first, Len(w))

\* the kinds a dispatching stream has written from the tool-call list on, by
\* the progress of the request
KindsAfterDispatch ==
    <<"toolcalls">>
    \o (IF pc \in {"second", "recv2"} \/ Len(providerReqs) = 2 THEN <<"results">> ELSE <<>>)
    \o [k \in 1..(IF Len(providerReqs) = 2 THEN Len(upstream) ELSE 0) |-> "chunk"]
    \o (IF pc = "done" /\ outcome = "nil" THEN <<"done">> ELSE <<>>)

\* C12: a streaming request that dispatched tools has written, in this
\* order, one event with the tool-call list, one event with the result list
\* once caller.Call has returned, one chunk event per second-call chunk in
\* upstream order, and [DONE] at the end; what precedes the tool-call list are
\* chunks of the first call only.
C12_DispatchEventOrder ==
    (StreamingChat /\ callCount > 0) =>
        LET tail == FromToolCalls(written) IN
        /\ [k \in 1..Len(tail) |-> tail[k].kind] = KindsAfterDispatch
        /\ tail[1].body = toolCalls
        /\ \A k \in 1..(Len(written) - Len(tail)) : written[k].kind = "chunk"
        /\ Len(tail) >= 2 =>
              /\ pc # "calling" /\ callErr = "nil"
              /\ tail[2].body = callResult
        /\ \A k \in 3..Len(tail) :
              tail[k].kind = "chunk" =>
                /\ tail[k].body.content = upstream[k - 2].content
                /\ tail[k].body.deltas = upstream[k - 2].deltas

\* the whole sequence was written for a second stream of two chunks
C12_Witness ==
    /\ StreamingChat /\ callCount > 0 /\ pc = "done" /\ outcome = "nil"
    /\ Len(upstream) = 2 /\ upstream[1] # upstream[2]
    /\ Len(FromToolCalls(written)) = 5
    /\ Len(callResult) > 0

\* C13: a request that did not ask for streaming writes a single JSON body
\* and nothing else: no tool-call list or result list event, also when tools
\* were dispatched.
C13_NonStreamWritesOnlyJSON ==
    (api = "chat" /\ ~req.Stream) =>
        /\ Len(written) <= 1
        /\ \A k \in 1..Len(written) : written[k].kind = "json"

\* C14: the follow-up request has ToolChoice cleared; its Tools are cleared
\* unless the provider's Name() is "anthropic", for which the Tools of the
\* first request are kept unchanged.
C14_FollowUpToolsByProvider ==
    SecondCallMade =>
        /\ providerReqs[2].ToolChoice = "nil"
        /\ providerName # "anthropic" => providerReqs[2].Tools = <<>>
        /\ providerName = "anthropic" => providerReqs[2].Tools = providerReqs[1].Tools

\* anthropic got a follow-up request that still carries the registered tools
C14_Witness ==
    /\ SecondCallMade /\ providerName = "anthropic"
    /\ providerReqs[1].ToolChoice = "auto"
    /\ providerReqs[2].Tools = registry /\ Len(registry) = 2

\* the chunks of the second stream as written to the client
SecondChunkBodies ==
    LET tail == FromToolCalls(written)
        evs  == SelectSeq(SubSeq(tail, 3, Len(tail)), LAMBDA e : e.kind = "chunk")
    IN  [k \in 1..Len(evs) |-> evs[k].body]

\* C15: in a streamed second call every chunk with usage is written with each
\* usage field equal to the provider's value plus the first call's value for
\* that field, hence not below the provider's value; a chunk without usage is
\* written unchanged.
C15_StreamUsageAddsFirstCall ==
    (StreamingChat /\ Len(providerReqs) = 2) =>
        /\ Len(SecondChunkBodies) = Len(upstream)
        /\ \A k \in 1..Len(upstream) :
              LET out == SecondChunkBodies[k] IN
              IF upstream[k].usage = Nil
              THEN out = upstream[k]
              ELSE /\ out.usage # Nil
                   /\ out.usage[1].prompt = upstream[k].usage[1].prompt + firstUsage.prompt
                   /\ out.usage[1].completion = upstream[k].usage[1].completion + firstUsage.completion
                   /\ out.usage[1].total = upstream[k].usage[1].total + firstUsage.total
                   /\ out.usage[1].prompt >= upstream[k].usage[1].prompt
                   /\ out.usage[1].completion >= upstream[k].usage[1].completion
                   /\ out.usage[1].total >= upstream[k].usage[1].total
                   /\ [out EXCEPT !.usage = Nil] = [upstream[k] EXCEPT !.usage = Nil]

\* a usage chunk of the second stream was written after a first stream that
\* reported usage
C15_Witness ==
    /\ StreamingChat /\ Len(providerReqs) = 2 /\ firstUsage = ProviderUsage
    /\ Len(upstream) = 2 /\ upstream[1].usage = Nil /\ upstream[2].usage # Nil
    /\ SecondChunkBodies[2].usage[1].total = 6

\* C16: in non-stream mode with tool dispatch the usage of the final JSON
\* response is the field-wise sum of both calls, the first call's total
\* counting as prompt + completion.
C16_NonStreamUsageIsSum ==
    (api = "chat" /\ ~req.Stream /\ Len(providerReqs) = 2 /\ pc = "done" /\ outcome = "nil") =>
        /\ written[Len(written)].kind = "json"
        /\ written[Len(written)].body.usage =
              Usage(ProviderUsage.prompt + firstUsage.prompt,
                    ProviderUsage.completion + firstUsage.completion,
                    ProviderUsage.total + firstUsage.prompt + firstUsage.completion)

\* the last two registry writes were RegisterFunction(appID, tag, defA) and
\* RegisterFunction(appID, tag, defB), with two different definitions
ReRegistered ==
    /\ lastWrite # Nil /\ lastWrite[1].op = "register"
    /\ lastEffect.replaced # Nil /\ lastEffect.replaced[1] # lastWrite[1].def

\* C17 as claimed: after RegisterFunction(appID, tag, defA);
\* RegisterFunction(appID, tag, defB), whatever came before, ListToolCalls(appID)
\* maps tag to defB and has no entry with defA.
C17_ReRegistrationLeavesNoOldDefinition ==
    ReRegistered =>
        LET listed == ListToolCalls(registryTools, lastWrite[1].appID) IN
        /\ lastWrite[1].tag \in DOMAIN listed
        /\ listed[lastWrite[1].tag].Function = lastWrite[1].def
        /\ \A t \in DOMAIN listed : listed[t].Function # lastEffect.replaced[1]

\* C17 as amended: after RegisterFunction(appID, tag, defA);
\* RegisterFunction(appID, tag, defB), ListToolCalls(appID) maps tag to the
\* tool of defB, and an entry with defA is left only under another tag.
C17_ReRegistrationReplacesTag ==
    ReRegistered =>
        LET listed == ListToolCalls(registryTools, lastWrite[1].appID) IN
        /\ lastWrite[1].tag \in DOMAIN listed
        /\ listed[lastWrite[1].tag] = RegistryToolCall(lastWrite[1].def)
        /\ \A t \in DOMAIN listed :
              listed[t].Function = lastEffect.replaced[1] => t # lastWrite[1].tag

\* tag 1 of tenant a was re-registered while tag 2 holds another tool
C17_Witness ==
    /\ ReRegistered /\ lastWrite[1].appID = "a" /\ lastWrite[1].tag = 1
    /\ lastWrite[1].def.Description = <<"B">> /\ lastEffect.replaced[1].Description = <<"A">>
    /\ DOMAIN ListToolCalls(registryTools, "a") = {1, 2}

\* C18: after UnregisterFunction(appID, name) has returned, ListToolCalls(appID)
\* has no tool whose function name is name, whatever the registry held before.
C18_UnregisterRemovesEveryTag ==
    (lastWrite # Nil /\ lastWrite[1].op = "unregister") =>
        LET listed == ListToolCalls(registryTools, lastWrite[1].appID) IN
        \A t \in DOMAIN listed : listed[t].Function.Name # lastWrite[1].name

\* the name was registered under both tags and both entries were removed
C18_Witness ==
    /\ lastWrite # Nil /\ lastWrite[1].op = "unregister" /\ lastWrite[1].name = "f"
    /\ lastEffect.removed = {1, 2}
    /\ "a" \in DOMAIN registryTools

\* C19: the map ListToolCalls returned stays as it was returned while
\* GetChatCompletions uses it, and no registry write runs while the call
\* ranges over that map.
C19_ReadIsSnapshotUnderMutex ==
    /\ rpc \in {"range1", "upstream", "range2"} => ListToolCalls(registryTools, rapp) = rsnap
    /\ ~rdirty

\* C20: decoding the encoding of a frame gives the frame back, for empty
\* strings, tag 0 and an empty definition too, and in whatever order the four
\* primitive packets stand in the node.
C20_DecodeInvertsEncode ==
    cpc = "decoded" =>
        /\ decoded[1].err = "nil"
        /\ decoded[1].f = frame

\* a frame with a tag of four bytes, decoded from the reverse order
C20_Witness ==
    /\ cpc = "decoded" /\ fieldOrder = <<4, 3, 2, 1>>
    /\ frame.Tag = 2^24 + 255 /\ frame.AppID = <<>> /\ frame.Name # <<>> /\ frame.Definition = <<>>
    /\ decoded[1].f.Tag = 2^24 + 255

\* the fields of the frame whose primitive packet the node lacks
MissingFields == (1..4) \ { fieldOrder[k] : k \in DOMAIN fieldOrder }

\* C21: decoding a node that lacks the packet of appID, name, tag or
\* definition fails with MALFORMED_FRAME; it does not return success with the
\* field left at its previous or zero value.
C21_MissingFieldFailsDecode ==
    (cpc = "decoded" /\ MissingFields # {}) => decoded[1].err = "MALFORMED_FRAME"

\* the positions of the system messages of a message list
SystemPositions(msgs) == { k \in 1..Len(msgs) : msgs[k].role = "system" }

\* the position of the first system message of a list that has one
FirstSystem(msgs) == CHOOSE k \in SystemPositions(msgs) : \A l \in SystemPositions(msgs) : k <= l

\* C22 as stated: after OpSystemPrompt with op Prefix or Overwrite the request
\* has at most one system message, for every message list and every prompt.
C22_AtMostOneSystemMessage ==
    (opPc = "returned" /\ opOp \in {"Prefix", "Overwrite"}) =>
        Cardinality(SystemPositions(opOut[1].Messages)) <= 1

\* C22: after OpSystemPrompt with op Prefix, or with op Overwrite and a
\* non-empty prompt, the request has at most one system message; where the
\* input has system messages the survivor stands where the first of them
\* stood and every later one is gone.
C22_AtMostOneSystemMessageWhenApplied ==
    (opPc = "returned" /\ (opOp = "Prefix" \/ (opOp = "Overwrite" /\ opPrompt # <<>>))) =>
        LET in == opReq.Messages
            out == opOut[1].Messages
        IN  /\ Cardinality(SystemPositions(out)) <= 1
            /\ SystemPositions(in) # {} =>
                  /\ SystemPositions(out) = {FirstSystem(in)}
                  /\ Len(out) = Len(in) - (Cardinality(SystemPositions(in)) - 1)

\* two system messages with a user message between them, op Prefix
C22_Witness ==
    /\ opPc = "returned" /\ opOp = "Prefix"
    /\ SystemPositions(opReq.Messages) = {1, 3}
    /\ Len(opOut[1].Messages) = 2
    /\ opOut[1].Messages[2].role = "user"

\* C23: the surviving system message gets its content from the op: Overwrite
\* with a non-empty prompt gives the prompt, Prefix gives sysPrompt + "\n" +
\* the content of the first system message; an input without a system message
\* gets a new system message at index 0, for Overwrite with a non-empty prompt
\* and for Prefix whatever the prompt is.
C23_SystemContentByOp ==
    opPc = "returned" =>
        LET in == opReq.Messages
            out == opOut[1].Messages
        IN  /\ (opOp = "Overwrite" /\ opPrompt # <<>> /\ SystemPositions(in) # {}) =>
                  out[FirstSystem(in)].content = opPrompt
            /\ (opOp = "Prefix" /\ SystemPositions(in) # {}) =>
                  out[FirstSystem(in)].content = opPrompt \o <<"\n">> \o in[FirstSystem(in)].content
            /\ (SystemPositions(in) = {} /\ (opOp = "Prefix" \/ (opOp = "Overwrite" /\ opPrompt # <<>>))) =>
                  /\ Len(out) = Len(in) + 1
                  /\ out[1].role = "system"
                  /\ SubSeq(out, 2, Len(out)) = in

\* C24: the caller cache never holds more than CallerCacheSize callers, and a
\* Caller that left the cache by size eviction or by TTL expiry has been
\* closed exactly once, by the eviction hook.
C24_CacheBoundedAndEvictedClosed ==
    /\ Len(callers) <= cacheSize
    /\ \A c \in 1..MaxCallers : leftBy[c] \in {"size", "ttl"} => closeCount[c] = 1

\* one Caller was evicted for size and another one removed after its TTL
C24_Witness ==
    /\ \E c \in 1..MaxCallers : leftBy[c] = "size" /\ closeCount[c] = 1
    /\ \E c \in 1..MaxCallers : leftBy[c] = "ttl" /\ closeCount[c] = 1
    /\ Len(callers) = cacheSize

\* C25: a request works on a clone of the Caller's metadata: whatever the
\* handler or the provider stores into the request's map, the map the cached
\* Caller holds stays as it was, and a later request on the same Caller reads
\* the original metadata.
C25_CachedMetadataUnchanged ==
    /\ mdPc # "off" => mdHeap[0] = mdOriginal
    /\ mdRequests > 0 => mdSeen = mdOriginal

\* the second request has started after the provider stored into the first
\* request's map
C25_Witness ==
    /\ mdRequests = 2 /\ mdPc = "first"
    /\ mdHeap[1] # mdOriginal
    /\ mdHeap[2] = mdOriginal
    /\ mdSeen = mdOriginal

\* the run got as far as the bridge config
PastBridge == servePc \in {"zipper", "ai", "listen", "returned"} /\ options # {}

\* C26: with the bridge config absent (ErrConfigNotFound) the serve command
\* goes on to create the zipper and, when it was created, to start it, and it
\* never installs the AI connection middleware, registers a provider or
\* starts the API server; any other parse error of the bridge config ends the
\* command before the zipper is created.
C26_BridgeAbsentZipperStillRuns ==
    /\ (PastBridge /\ serveIn.bridge = "absent") =>
          /\ "ConnMiddleware" \notin options /\ registered = {} /\ ~apiServer
          /\ servePc = "returned" => (zipper = ~serveIn.zipperErr /\ listening = zipper)
    /\ (PastBridge /\ serveIn.bridge = "malformed") =>
          (servePc = "returned" /\ ~zipper /\ ~listening)

\* the command has returned from ListenAndServe without a bridge
C26_Witness ==
    /\ servePc = "returned" /\ serveIn.bridge = "absent"
    /\ zipper /\ listening /\ options = {"TracerProvider", "Auth"}

\* the deltas of a sequence that carry this index, in arrival order
RECURSIVE WithIndex(_, _)
WithIndex(ds, ix) ==
    IF ds = <<>> THEN <<>>
    ELSE (IF Head(ds).index = ix THEN <<Head(ds)>> ELSE <<>>) \o WithIndex(Tail(ds), ix)

\* the argument fragments of a sequence of deltas, concatenated
RECURSIVE AllArguments(_)
AllArguments(ds) == IF ds = <<>> THEN <<>> ELSE Head(ds).args \o AllArguments(Tail(ds))

\* the last non-empty function name of a sequence of deltas ("" without one)
RECURSIVE LastName(_)
LastName(ds) ==
    IF ds = <<>> THEN ""
    ELSE IF ds[Len(ds)].name # "" THEN ds[Len(ds)].name
    ELSE LastName(SubSeq(ds, 1, Len(ds) - 1))

\* C27: reassembly is keyed by the delta index: the call at slice position k
\* has the id and type of the first delta with index k, the last non-empty
\* name seen for index k, and as arguments all fragments with index k in
\* arrival order, also when indices interleave and later deltas have no id.
C27_ReassemblyKeyedByIndex ==
    (rePc = "done" /\ ~reOut.panic) =>
        \A k \in 1..Len(reOut.calls) :
            LET ds == WithIndex(reDeltas, k - 1) IN
            /\ ds # <<>>
            /\ reOut.calls[k].id = ds[1].id /\ reOut.calls[k].type = ds[1].type
            /\ reOut.calls[k].name = LastName(ds)
            /\ reOut.calls[k].args = AllArguments(ds)

\* deltas of index 0 and 1 interleave; the continuation of index 0 has no id
\* and brings the second fragment
C27_Witness ==
    /\ rePc = "done" /\ ~reOut.panic /\ Len(reOut.calls) = 2
    /\ Len(reDeltas) = 3
    /\ reDeltas[1].index = 0 /\ reDeltas[2].index = 1 /\ reDeltas[3].index = 0
    /\ reDeltas[1].id = "c1" /\ reDeltas[3].id = ""
    /\ reOut.calls[1].id = "c1" /\ reOut.calls[1].name = "g"
    /\ reOut.calls[1].args = <<"x", "y">>
    /\ reOut.calls[2].id = "c2"

\* the calls of a list whose function name and type some tool of the snapshot
\* has, each once, in the order of the list
RECURSIVE RegisteredCalls(_, _)
RegisteredCalls(calls, tls) ==
    IF calls = <<>> THEN <<>>
    ELSE (IF \E k \in 1..Len(tls) : tls[k].name = Head(calls).name /\ tls[k].type = Head(calls).type
          THEN <<Head(calls)>> ELSE <<>>)
         \o RegisteredCalls(Tail(calls), tls)

\* C28: the list handed to caller.Call is the first call's tool-call list
\* restricted to the registered tools: a subsequence in emission order that
\* holds each call at most once, and holds a call exactly if a tool of the
\* registry snapshot has its function name and type.
C28_DispatchIsRegisteredSubsequence ==
    (api = "chat" /\ callCount > 0) => fnCalls = RegisteredCalls(toolCalls, tools)

\* the messages of the follow-up request after the first request's messages
FollowUpTail == SubSeq(providerReqs[2].Messages, Len(reqMessages) + 1, Len(providerReqs[2].Messages))

\* C29: the follow-up request is the first request's messages (after the
\* system-prompt op), then the captured assistant message, then the tool
\* messages; every tool call id the assistant message lists has exactly one
\* tool message with that tool_call_id, and no tool message has another id.
C29_FollowUpWellFormed ==
    (api = "chat" /\ SecondCallMade) =>
        LET msgs == providerReqs[2].Messages
            toolMsgs == SubSeq(FollowUpTail, 2, Len(FollowUpTail))
        IN  /\ Len(msgs) > Len(reqMessages)
            /\ SubSeq(msgs, 1, Len(reqMessages)) = reqMessages
            /\ FollowUpTail[1] = assistantMessage
            /\ \A k \in 1..Len(toolMsgs) : toolMsgs[k].role = "tool"
            /\ \A c \in 1..Len(assistantMessage.tool_calls) :
                  Cardinality({ k \in 1..Len(toolMsgs) :
                      toolMsgs[k].tool_call_id = assistantMessage.tool_calls[c].id }) = 1
            /\ \A k \in 1..Len(toolMsgs) :
                  \E c \in 1..Len(assistantMessage.tool_calls) :
                      toolMsgs[k].tool_call_id = assistantMessage.tool_calls[c].id

\* a chunk of a stream has been written to the client
ChunkDelivered == \E k \in 1..Len(written) : written[k].kind = "chunk"

\* C30: in a streaming request that delivers at least one chunk to the client
\* TTFT is recorded exactly once and not before the first chunk was written:
\* on the client-tools path, the plain-content path and the tool-dispatch path
\* whose first chunk comes from the second call.
C30_TTFTOnceAfterFirstChunk ==
    (api = "chat" /\ req.Stream /\ pc = "done" /\ ChunkDelivered) =>
        /\ Len(ttft) = 1
        /\ ttft[1] >= 1

\* a tool call of the upstream response equals a tool registered for the appID
SomeCallMatches ==
    \E k \in 1..Len(azUpstream.calls) : \E tag \in DOMAIN azTools :
        azTools[tag].Type = azUpstream.calls[k].Type
        /\ azTools[tag].Function.Name = azUpstream.calls[k].Function.Name

\* C31: the legacy provider's GetChatCompletions returns a nil error exactly
\* when a tool call of the upstream response equals a registered tool, and
\* then each matching call's function is listed under the tag of the tool it
\* matched; in every other case it returns ErrNoFunctionCall.
C31_NilErrorIffCallMatches ==
    azPc = "returned" =>
        /\ ~azOut.panic
        /\ azOut.err = "nil" <=> SomeCallMatches
        /\ azOut.err # "nil" => azOut.err = "ErrNoFunctionCall"
        /\ azOut.err = "nil" =>
              \A tag \in DOMAIN azTools : \A k \in 1..Len(azUpstream.calls) :
                  (azTools[tag].Type = azUpstream.calls[k].Type
                   /\ azTools[tag].Function.Name = azUpstream.calls[k].Function.Name)
                  => /\ tag \in DOMAIN azOut.Functions
                     /\ \E n \in 1..Len(azOut.Functions[tag]) :
                           azOut.Functions[tag][n] = azUpstream.calls[k].Function

\* the tool messages of the first phase of GetInvoke, one per call result
InvokeToolMessages ==
    [k \in 1..Len(callResult) |-> Msg("tool", callResult[k].content, callResult[k].toolCallID, <<>>)]

\* the messages the claim lists for the second request of GetInvoke
InvokeSecondMessages ==
    ((<<Msg("system", (BaseSystemMessage \o <<"\n\n">>) \o <<"## Instructions\n">>, "", <<>>)>>
      \o <<Msg("assistant", firstResp[1].content, "", firstResp[1].calls)>>)
     \o InvokeToolMessages)
    \o <<Msg("user", UserInstruction, "", <<>>)>>

\* C32: in GetInvoke with tool calls the second provider request has no tools
\* and its messages are the system message (base system message and
\* instruction header, no tool descriptions), the first call's assistant
\* message, one tool message per call result in result order, and the user
\* instruction last; the returned response carries the first phase's ToolCalls
\* and ToolMessages exactly when includeCallStack is true.
C32_InvokeSecondRequest ==
    (api = "invoke" /\ Len(providerReqs) >= 2) =>
        /\ providerReqs[2].Tools = <<>>
        /\ providerReqs[2].Messages = InvokeSecondMessages
        /\ (pc = "done" /\ outcome = "nil") =>
              /\ includeCallStack =>
                    ret[1].ToolCalls = firstResp[1].calls /\ ret[1].ToolMessages = InvokeToolMessages
              /\ ~includeCallStack => ret[1].ToolCalls = <<>> /\ ret[1].ToolMessages = <<>>

\* a finished GetInvoke with two registered tools, two call results and the call stack
C32_Witness ==
    /\ api = "invoke" /\ pc = "done" /\ outcome = "nil" /\ includeCallStack
    /\ Len(providerReqs) = 2 /\ Len(registry) > 0
    /\ Len(callResult) = 2 /\ callResult[1].toolCallID # callResult[2].toolCallID
    /\ Len(providerReqs[2].Messages) = 5
    /\ providerReqs[1].Messages[1].content # providerReqs[2].Messages[1].content
    /\ ret[1].ToolMessages = InvokeToolMessages

\* no entry has left the cache for its size or its TTL, and none has expired
NoEviction ==
    /\ \A c \in 1..MaxCallers : leftBy[c] \notin {"size", "ttl"}
    /\ \A k \in 1..Len(callers) : ~callers[k].expired

\* the Caller is cached, or closed, or still on its way into the cache
CachedOrClosed(c) ==
    \/ \E k \in 1..Len(callers) : callers[k].caller = c
    \/ closeCount[c] > 0
    \/ \E p \in Loaders : lpc[p] = "add" /\ lcaller[p] = c

\* C33: concurrent loadOrCreateCaller calls with one credential and no
\* eviction in between invoke the factory once and share one Caller, and no
\* Caller is created that is neither in the cache nor closed.
C33_OneCallerPerCredential ==
    NoEviction =>
        /\ \A credential \in Credentials : factoryCalls[credential] <= 1
        /\ \A c \in 1..made : CachedOrClosed(c)

\* C34: GetChatCompletions ends with nil or a returned error for every
\* provider behaviour and never aborts on a nil or out-of-range access: not
\* for a first stream that ends before any forwarded chunk, not for a
\* non-stream response with zero choices, not for tool-call deltas without an
\* index or with indices that are not 0..n-1.
C34_NormalOutcomeAlways ==
    (api = "chat" /\ pc = "done") => outcome # "panic"

\* the messages of a list that are not system messages, in the list's order
NonSystem(msgs) == SelectSeq(msgs, LAMBDA msg : msg.role # "system")

\* C35: OpSystemPrompt never drops, duplicates, reorders or alters a
\* non-system message: for every op and prompt the non-system messages of the
\* output are those of the input, in order, and with op Disabled (or
\* Overwrite with an empty prompt) the request is returned unchanged.
C35_NonSystemMessagesKept ==
    opPc = "returned" =>
        /\ NonSystem(opOut[1].Messages) = NonSystem(opReq.Messages)
        /\ (opOp = "Disabled" \/ (opOp = "Overwrite" /\ opPrompt = <<>>)) => opOut[1] = opReq

\* Prefix on a user, a system and an assistant message: the system message
\* is rebuilt between the two others
C35_Witness ==
    /\ opPc = "returned" /\ opOp = "Prefix" /\ opPrompt # <<>>
    /\ Len(opReq.Messages) = 3 /\ Len(opOut[1].Messages) = 3
    /\ opReq.Messages[1].role = "user" /\ opReq.Messages[2].role = "system"
    /\ opReq.Messages[3].role = "assistant"
    /\ opOut[1].Messages[1] = opReq.Messages[1] /\ opOut[1].Messages[3] = opReq.Messages[3]
    /\ opOut[1].Messages[2].content # opReq.Messages[2].content

\* the entry (appID, tag) of a registry, or Nil
RegistryEntry(ts, appID, tag) ==
    IF appID \in DOMAIN ts /\ tag \in DOMAIN ts[appID] THEN Some(ts[appID][tag]) ELSE Nil

\* a step that runs the body of RegisterFunction or UnregisterFunction
RegistryWrite == mu # "" /\ mu' = "" /\ lastWrite' # Nil

\* C36: registry operations are isolated per tenant and per name:
\* RegisterFunction(appID, tag, ...) changes only the entry (appID, tag);
\* UnregisterFunction(appID, name) removes only entries of appID whose
\* function name is name and changes no other entry, and for an unknown
\* appID it creates no entry.
C36_RegistryIsolation ==
    [][RegistryWrite =>
        LET c == lastWrite'[1] IN
        /\ c.op = "register" =>
              \A appID \in Apps : \A tag \in Tags :
                  (appID # c.appID \/ tag # c.tag) =>
                      RegistryEntry(registryTools', appID, tag) = RegistryEntry(registryTools, appID, tag)
        /\ c.op = "unregister" =>
              /\ \A appID \in Apps : \A tag \in Tags :
                    \/ RegistryEntry(registryTools', appID, tag) = RegistryEntry(registryTools, appID, tag)
                    \/ /\ appID = c.appID
                       /\ RegistryEntry(registryTools, appID, tag) # Nil
                       /\ registryTools[appID][tag].Function.Name = c.name
                       /\ RegistryEntry(registryTools', appID, tag) = Nil
              /\ c.appID \notin DOMAIN registryTools => registryTools' = registryTools
    ]_vars

\* f was unregistered for tenant a: its entry is gone, tenant a's g and tenant
\* b's entry are still there
C36_Witness ==
    /\ lastWrite # Nil /\ lastWrite[1].op = "unregister"
    /\ lastWrite[1].appID = "a" /\ lastWrite[1].name = "f"
    /\ lastEffect.removed # {}
    /\ "a" \in DOMAIN registryTools /\ "b" \in DOMAIN registryTools
    /\ \E tag \in DOMAIN registryTools["a"] : registryTools["a"][tag].Function.Name = "g"
    /\ DOMAIN registryTools["b"] # {}

====
